---- MODULE Spec2Model ----
(***************************************************************************)
(* Verification model of the polyphonic synthesizer core:                  *)
(*   - VoiceManager (voice allocation, stealing, lazy reclamation)         *)
(*   - MidiEvent / MidiParser (byte stream to events, running status)      *)
(* The voice pool and the pitch range are scaled down; every operator is   *)
(* written against the C++ source it is named after.                       *)
(***************************************************************************)
EXTENDS Integers, Sequences, FiniteSets, TLC

(***************************************************************************)
(* Bounds                                                                  *)
(***************************************************************************)
\* Pool size used for model checking (VoiceManager::MAX_VOICES is 16 in the
\* source; the allocator code is uniform in the pool size).
MAX_VOICES == 2

\* Cap on timestamp_counter_ (a uint64_t in the source).
MaxTime == 4

\* Longest byte stream fed to one MidiParser, and longest single parse call.
MaxStream == 5
MaxChunk == 2

\* Number of data-byte groups of a running-status stream.
NumGroups == 3

\* Calls made on one MusicalClock: advance calls, setter calls, and the cap
\* on the samples fed in all (total_samples_ is a double in the source).
MaxAdvances == 3
MaxSetters == 2
MaxSamples == 1000000

\* The log ring holds 2^RingBits entries (2^10 in the source), and the
\* producers attempt one push more than it has slots.
RingBits == 2
RingSize == 2 ^ RingBits
MaxPushes == RingSize + 1

\* Pushes attempted when two threads push.
MaxEnginePushes == 3

\* Blocks a BufferPool is constructed with (initial_capacity, 32 by default
\* in the source) and blocks it may fabricate when it runs empty.
PoolCapacity == 2
MaxFabricated == 1

\* Slots of a modulation matrix (ModulationMatrix::MAX_CONNECTIONS is 16 in
\* the source; its loops are uniform in the size).
MAX_CONNECTIONS == 3

\* The longest block pulled from a single envelope
MaxEnvBlock == 2

\* The longest block pulled from a Voice, and how many pulls one run makes
MaxVoiceBlock == 1
MaxVoicePulls == 2

\* How many blocks the facade renders and how many clock setters it calls
MaxRenders == 3
MaxClockSets == 2

\* Pitches offered to the allocator: one more than there are voices, so that
\* an unmapped pitch exists when every voice is gated.
Pitches == 0..MAX_VOICES

Slots == 0..(MAX_VOICES - 1)

(***************************************************************************)
(* ADSR envelope, as far as the allocator observes it                      *)
(***************************************************************************)
EnvStates == {"Idle", "Attack", "Decay", "Sustain", "Release"}

\* AdsrEnvelopeProcessor::gate_on
gate_on(env) == "Attack"

\* Variant of gate_off that ends the envelope at once instead of releasing.
gate_off_to_idle(env) == "Idle"

\* AdsrEnvelopeProcessor::gate_off
gate_off(env) == IF env # "Idle" THEN "Release" ELSE env

\* AdsrEnvelopeProcessor::is_active
env_is_active(env) == env # "Idle"

\* AdsrEnvelopeProcessor::is_releasing
is_releasing(env) == env = "Release"

\* AdsrEnvelopeProcessor::reset
env_reset(env) == "Idle"

\* AdsrEnvelopeProcessor::process_sample, stage only: the stages one or more
\* samples can lead to from stage env (the levels and rates are abstracted).
process_sample(env) ==
    CASE env = "Attack"  -> {"Attack", "Decay", "Sustain"}
      [] env = "Decay"   -> {"Decay", "Sustain"}
      [] env = "Sustain" -> {"Sustain"}
      [] env = "Release" -> {"Release", "Idle"}
      [] OTHER           -> {"Idle"}

(***************************************************************************)
(* Voice                                                                   *)
(***************************************************************************)
\* Voice::note_on: envelope_->reset() followed by envelope_->gate_on()
Voice_note_on(env) == gate_on(env_reset(env))

\* Voice::note_off
Voice_note_off(env) == gate_off(env)

\* Voice::is_active
Voice_is_active(env) == env_is_active(env)

\* Voice::reset
Voice_reset(env) == env_reset(env)

(***************************************************************************)
(* State                                                                   *)
(***************************************************************************)
VARIABLES
    voices_,             \* [Slots -> VoiceSlot], the voice's envelope stage included
    note_to_voice_map_,  \* [pitch -> slot index or -1]
    timestamp_counter_,  \* uint64_t
    lastOp,              \* history: the last operation and the path it took
    m_state,             \* MidiParser::m_state
    m_runningStatus,     \* MidiParser::m_runningStatus
    m_pendingStatus,     \* MidiParser::m_pendingStatus
    m_pendingData1,      \* MidiParser::m_pendingData1
    emitted,             \* history: the events handed to the callback, in order
    fed,                 \* history: the bytes parsed so far
    alphabet,            \* the bytes the caller draws from in this run
    input                \* a prepared stream still to be parsed

\* MusicalClock
VARIABLES
    sample_rate_,        \* double, integer-valued in every caller
    bpm_,                \* double
    beats_per_bar_,      \* int32_t
    samples_per_tick_,   \* double, kept exactly as a fraction <<num, den>>
    total_samples_,      \* double holding a sample count
    total_samples_base_, \* double, the sample count at the last anchor
    total_ticks_,        \* int64_t
    total_ticks_base_,   \* int64_t, the tick count at the last anchor
    clk_anchors,         \* history: where each tempo segment started
    clk_calls,           \* history: calls made so far, by kind
    clk_ctl,             \* control thread inside set_bpm: position and locals
    clk_aud              \* audio thread inside advance: position and locals

\* LockFreeRingBuffer<LogEntry, Size> of the AudioLogger
VARIABLES
    buffer,              \* std::array<T, Size>; an entry is two words
    head,                \* std::atomic<size_t>
    tail,                \* std::atomic<size_t>
    ring_prod,           \* per pushing thread: position in push and locals
    ring_cons,           \* the draining thread: position in pop and locals
    ring_hist            \* history: entries accepted and popped, words copied

\* BufferPool
VARIABLES
    pool_,               \* std::vector<std::unique_ptr<StereoBlock>>
    mutex_,              \* std::mutex: the thread that holds it, or "free"
    pool_threads,        \* per thread: position, block in hand, live handles
    pool_made            \* history: the blocks constructed so far

\* ModulationMatrix
VARIABLES
    connections_,        \* std::array<ModulationConnection, MAX_CONNECTIONS>
    mx_args              \* history: the arguments of the last call

\* The threads that reach the VoiceManager through the engine
VARIABLES
    vm_ctl,              \* control thread inside note_on: position and locals
    vm_aud               \* driver thread inside do_pull: the next slot

\* One AdsrEnvelopeProcessor on its own, one Voice on its own, and the last
\* call made on the object a specification drives
VARIABLES
    env,                 \* the processor: state_, current_level_, the times and rates
    voice,               \* the Voice: its processors, matrix_ and base values
    call                 \* history: the last call, its arguments and what it returned

vmvars == <<voices_, note_to_voice_map_, timestamp_counter_>>


vmthreads == <<vm_ctl, vm_aud>>

poolvars == <<pool_, mutex_, pool_threads, pool_made>>

matrixvars == <<connections_, mx_args>>

ringvars == <<buffer, head, tail, ring_prod, ring_cons, ring_hist>>

clockvars == <<sample_rate_, bpm_, beats_per_bar_, samples_per_tick_,
               total_samples_, total_samples_base_, total_ticks_,
               total_ticks_base_, clk_anchors, clk_calls, clk_ctl, clk_aud>>

clk_threads == <<clk_ctl, clk_aud>>

\* note & 0x7F
Mask7(n) == n % 128

\* The manager's state as one value, for the operators below.
VM == [voices |-> voices_, map |-> note_to_voice_map_, ts |-> timestamp_counter_]

\* VoiceManager::VoiceManager
VoiceManager_ctor ==
    [voices |-> [i \in Slots |-> [current_note |-> -1, active |-> FALSE,
                                  last_note_on_time |-> 0, env |-> "Idle"]],
     map    |-> [p \in Pitches |-> -1],
     ts     |-> 0]

\* The first index of a for (i = 0; i < MAX_VOICES; ++i) scan satisfying a
\* condition, -1 when there is none.
FirstIn(S) == IF S = {} THEN -1 ELSE CHOOSE i \in S : \A j \in S : i <= j

\* Variant of the retrigger test that never recognises a playing pitch.
IsRetrigger_never(vm, note) == FALSE

\* note_on, step 1: the retrigger test
IsRetrigger(vm, note) ==
    LET idx == vm.map[Mask7(note)] IN
    /\ idx # -1
    /\ vm.voices[idx].active
    /\ vm.voices[idx].current_note = note

\* note_on, step 2: the idle scan
IdleIdx(vm) == FirstIn({i \in Slots : ~Voice_is_active(vm.voices[i].env)})

\* note_on, step 3, priority 1: the releasing scan
ReleasingIdx(vm) == FirstIn({i \in Slots : is_releasing(vm.voices[i].env)})

\* Variant of the oldest-voice scan whose oldest_time starts at 0, so that no
\* slot is ever older.
OldestIdx_from_zero(vm) ==
    FirstIn({i \in Slots : vm.voices[i].last_note_on_time < 0})

\* note_on, step 3, priority 2: the first slot with the strictly smallest
\* last_note_on_time
OldestIdx(vm) ==
    FirstIn({i \in Slots : \A j \in Slots :
                vm.voices[i].last_note_on_time <= vm.voices[j].last_note_on_time})

\* Variant of the steal candidate that skips the releasing scan.
CandidateIdx_oldest_only(vm) == OldestIdx(vm)

\* The candidate of the steal path
CandidateIdx(vm) ==
    IF ReleasingIdx(vm) # -1 THEN ReleasingIdx(vm) ELSE OldestIdx(vm)

\* Which branch of VoiceManager::note_on is taken
NoteOnPath(vm, note) ==
    IF IsRetrigger(vm, note) THEN "retrigger"
    ELSE IF IdleIdx(vm) # -1 THEN "idle"
    ELSE IF ReleasingIdx(vm) # -1 THEN "steal_release"
    ELSE "steal_oldest"

\* VoiceManager::note_on
note_on(vm, note) ==
    LET t == vm.ts + 1 IN     \* next_timestamp()
    IF IsRetrigger(vm, note) THEN
        LET idx == vm.map[Mask7(note)] IN
        [vm EXCEPT !.ts = t,
                   !.voices[idx].last_note_on_time = t,
                   !.voices[idx].env = Voice_note_on(@)]
    ELSE IF IdleIdx(vm) # -1 THEN
        LET idle_idx == IdleIdx(vm) IN
        [vm EXCEPT !.ts = t,
                   !.voices[idle_idx] = [current_note |-> note, active |-> TRUE,
                                         last_note_on_time |-> t,
                                         env |-> Voice_note_on(@.env)],
                   !.map[Mask7(note)] = idle_idx]
    ELSE
        LET candidate_idx == CandidateIdx(vm)
            old == vm.voices[candidate_idx].current_note
            cleared == IF old # -1 THEN [vm.map EXCEPT ![Mask7(old)] = -1]
                       ELSE vm.map
        IN
        IF candidate_idx = -1 THEN vm
        ELSE
        [vm EXCEPT !.ts = t,
                   !.voices[candidate_idx] =
                        [current_note |-> note, active |-> TRUE,
                         last_note_on_time |-> t,
                         env |-> Voice_note_on(Voice_reset(@.env))],
                   !.map = [cleared EXCEPT ![Mask7(note)] = candidate_idx]]

\* Variant of note_off that leaves the note map entry in place.
note_off_keep_map(vm, note) ==
    LET voice_idx == vm.map[Mask7(note)] IN
    IF voice_idx # -1 /\ vm.voices[voice_idx].active
                      /\ vm.voices[voice_idx].current_note = note
    THEN [vm EXCEPT !.voices[voice_idx].env = Voice_note_off(@)]
    ELSE vm

\* VoiceManager::note_off
note_off(vm, note) ==
    LET voice_idx == vm.map[Mask7(note)] IN
    IF voice_idx # -1 /\ vm.voices[voice_idx].active
                      /\ vm.voices[voice_idx].current_note = note
    THEN [vm EXCEPT !.voices[voice_idx].env = Voice_note_off(@),
                    !.map[Mask7(note)] = -1]
    ELSE vm

\* VoiceManager::reset
reset(vm) ==
    [voices |-> [i \in Slots |-> [current_note |-> -1, active |-> FALSE,
                                  last_note_on_time |-> 0,
                                  env |-> Voice_reset(vm.voices[i].env)]],
     map    |-> [p \in Pitches |-> -1],
     ts     |-> 0]

\* Variant of the slot loop that reclaims a slot without forgetting its pitch.
do_pull_slot_keep_note(vm, i, adv) ==
    LET slot == vm.voices[i] IN
    IF slot.active THEN
        IF Voice_is_active(slot.env) THEN
            [vm EXCEPT !.voices[i].env = adv[i]]
        ELSE
            LET m == IF slot.current_note # -1
                        /\ vm.map[Mask7(slot.current_note)] = i
                     THEN [vm.map EXCEPT ![Mask7(slot.current_note)] = -1]
                     ELSE vm.map
            IN [vm EXCEPT !.voices[i].active = FALSE, !.map = m]
    ELSE vm

\* Variant of the slot loop that clears the map entry of the reclaimed
\* slot's pitch without looking where it points.
do_pull_slot_unguarded(vm, i, adv) ==
    LET slot == vm.voices[i] IN
    IF slot.active THEN
        IF Voice_is_active(slot.env) THEN
            [vm EXCEPT !.voices[i].env = adv[i]]
        ELSE
            LET m == IF slot.current_note # -1
                     THEN [vm.map EXCEPT ![Mask7(slot.current_note)] = -1]
                     ELSE vm.map
            IN [vm EXCEPT !.voices[i].active = FALSE,
                          !.voices[i].current_note = -1,
                          !.map = m]
    ELSE vm

\* One iteration of the slot loop of VoiceManager::do_pull.  adv[i] is the
\* stage the pulled voice's envelope ends the block in.
do_pull_slot(vm, i, adv) ==
    LET slot == vm.voices[i] IN
    IF slot.active THEN
        IF Voice_is_active(slot.env) THEN
            [vm EXCEPT !.voices[i].env = adv[i]]
        ELSE
            LET m == IF slot.current_note # -1
                        /\ vm.map[Mask7(slot.current_note)] = i
                     THEN [vm.map EXCEPT ![Mask7(slot.current_note)] = -1]
                     ELSE vm.map
            IN [vm EXCEPT !.voices[i].active = FALSE,
                          !.voices[i].current_note = -1,
                          !.map = m]
    ELSE vm

RECURSIVE do_pull_from(_, _, _)
do_pull_from(vm, i, adv) ==
    IF i >= MAX_VOICES THEN vm
    ELSE do_pull_from(do_pull_slot(vm, i, adv), i + 1, adv)

\* VoiceManager::do_pull (the mono and the stereo overload treat the slot
\* table alike)
do_pull(vm, adv) == do_pull_from(vm, 0, adv)

\* The envelope advances a block can make
Advances(vm) ==
    {adv \in [Slots -> EnvStates] :
        \A i \in Slots : adv[i] \in process_sample(vm.voices[i].env)}

(***************************************************************************)
(* MidiEvent                                                               *)
(***************************************************************************)
\* status & 0xF0
HighNibble(status) == (status \div 16) * 16

\* MidiEvent::isNoteOn
isNoteOn(ev) == HighNibble(ev.status) = 144 /\ ev.data2 > 0

\* Variant of isNoteOff without the velocity-0 note-on case.
isNoteOff_no_vel0(ev) == HighNibble(ev.status) = 128

\* MidiEvent::isNoteOff
isNoteOff(ev) ==
    \/ HighNibble(ev.status) = 128
    \/ (HighNibble(ev.status) = 144 /\ ev.data2 = 0)

\* VoiceManager::handleMidiEvent
handleMidiEvent(vm, ev) ==
    IF isNoteOn(ev) THEN note_on(vm, ev.data1)
    ELSE IF isNoteOff(ev) THEN note_off(vm, ev.data1)
    ELSE vm

\* Events handed to the dispatcher: note off (channel 0) and note on
\* (channel 1) for every pitch, with velocity 0 and 100, and a control change.
DispatchStatuses == {128, 145}
DispatchVelocities == {0, 100}
DispatchEvents ==
    [status : DispatchStatuses, data1 : Pitches, data2 : DispatchVelocities,
     sampleOffset : {0}]
    \cup {[status |-> 176, data1 |-> 7, data2 |-> 100, sampleOffset |-> 0]}

(***************************************************************************)
(* MidiParser                                                              *)
(***************************************************************************)
midivars == <<m_state, m_runningStatus, m_pendingStatus, m_pendingData1,
              emitted, fed, alphabet, input>>

\* MidiParser::isStatusByte
isStatusByte(byte) == byte >= 128

\* Variant of the real-time test that misses 0xF8.
isRealTime_gt(byte) == byte > 248

\* parse: the system real-time test, byte >= 0xF8
isRealTime(byte) == byte >= 248

\* Variant of getExpectedDataBytes that groups program change (0xC0) with
\* the two-data-byte messages.
getExpectedDataBytes_pc2(status) ==
    LET type == (status \div 16) * 16 IN
    CASE type \in {128, 144, 160, 176, 192, 224} -> 2
      [] type \in {208}                          -> 1
      [] OTHER                                   -> 0

\* MidiParser::getExpectedDataBytes
getExpectedDataBytes(status) ==
    LET type == HighNibble(status) IN
    CASE type \in {128, 144, 160, 176, 224} -> 2
      [] type \in {192, 208}                -> 1
      [] OTHER                              -> 0

\* The parser's fields as one value; out collects the callback invocations
\* of the call being modelled.
Parser == [m_state |-> m_state, m_runningStatus |-> m_runningStatus,
           m_pendingStatus |-> m_pendingStatus,
           m_pendingData1 |-> m_pendingData1, out |-> <<>>]

\* MidiParser's default member initialisers
MidiParser_ctor ==
    [m_state |-> "WaitingForStatus", m_runningStatus |-> 0,
     m_pendingStatus |-> 0, m_pendingData1 |-> 0, out |-> <<>>]

MidiEvent(status, data1, data2, sampleOffset) ==
    [status |-> status, data1 |-> data1, data2 |-> data2,
     sampleOffset |-> sampleOffset]

\* Variant of the running-status step that never re-uses the last status.
running_status_off(ps) == ps

\* parse: a data byte in WaitingForStatus re-uses the running status
running_status(ps) ==
    IF ps.m_state = "WaitingForStatus" /\ ps.m_runningStatus # 0
    THEN [ps EXCEPT !.m_pendingStatus = ps.m_runningStatus,
                    !.m_state = "WaitingForData1"]
    ELSE ps

\* One iteration of the byte loop of MidiParser::parse
parse_byte(ps, byte, sampleOffset) ==
    IF isStatusByte(byte) THEN
        IF isRealTime(byte) THEN ps
        ELSE [ps EXCEPT !.m_pendingStatus = byte,
                        !.m_runningStatus = byte,
                        !.m_state = "WaitingForData1"]
    ELSE
        LET rs == running_status(ps) IN
        CASE rs.m_state = "WaitingForData1" ->
                IF getExpectedDataBytes(rs.m_pendingStatus) = 1
                THEN [rs EXCEPT !.m_pendingData1 = byte,
                                !.out = Append(@, MidiEvent(rs.m_pendingStatus,
                                                            byte, 0, sampleOffset)),
                                !.m_state = "WaitingForStatus"]
                ELSE [rs EXCEPT !.m_pendingData1 = byte,
                                !.m_state = "WaitingForData2"]
          [] rs.m_state = "WaitingForData2" ->
                [rs EXCEPT !.out = Append(@, MidiEvent(rs.m_pendingStatus,
                                                       rs.m_pendingData1, byte,
                                                       sampleOffset)),
                           !.m_state = "WaitingForStatus"]
          [] OTHER -> rs

\* Variant of parse that begins every call waiting for a status byte.
RECURSIVE parse_rest(_, _, _)
parse_rest(ps, data, sampleOffset) ==
    IF data = <<>> THEN ps
    ELSE parse_rest(parse_byte(ps, Head(data), sampleOffset), Tail(data),
                    sampleOffset)

parse_restarting(ps, data, sampleOffset) ==
    parse_rest([ps EXCEPT !.m_state = "WaitingForStatus"], data, sampleOffset)

\* MidiParser::parse
RECURSIVE parse(_, _, _)
parse(ps, data, sampleOffset) ==
    IF data = <<>> THEN ps
    ELSE parse(parse_byte(ps, Head(data), sampleOffset), Tail(data), sampleOffset)

\* Byte values the streams are built from.  Channel statuses of every kind
\* (0x80 0x90 0xA0 0xB0 0xC0 0xD0 0xE0), a second status that is a channel
\* status on another channel, a system-common byte or a real-time byte, and
\* two data bytes.
ChannelStatuses == {128, 144, 160, 176, 192, 208, 224}
OtherStatuses == {193, 247, 248, 255}
DataBytes == {1, 100}
Alphabets == {{s1, s2} \cup DataBytes : s1 \in ChannelStatuses, s2 \in OtherStatuses}
SampleOffsets == {0, 7}

\* Statuses with two data bytes, for the running-status streams
TwoByteStatuses == {128, 144, 160, 176, 224, 233}

\* All sequences over S of length 0..n
SeqsUpTo(S, n) == UNION {[1..k -> S] : k \in 0..n}

\* A running-status stream: status s, then the groups of two data bytes, the
\* status repeated before the second group when rep is set.
RECURSIVE Concat(_)
Concat(ss) == IF ss = <<>> THEN <<>> ELSE Head(ss) \o Concat(Tail(ss))

RunningStream(s, groups, rep) ==
    <<s>> \o groups[1] \o (IF rep THEN <<s>> ELSE <<>>)
          \o Concat(SubSeq(groups, 2, Len(groups)))

(***************************************************************************)
(* MusicalClock                                                            *)
(*                                                                         *)
(* The doubles of the clock hold integers (sample counts, sample rates,    *)
(* tempos) and one quotient of integers (samples_per_tick_), which is kept *)
(* exactly as a fraction in lowest terms.  The sample rates and tempos     *)
(* drawn below give that quotient a finite binary expansion (25, 50,       *)
(* 22.96875, 45.9375), so the double arithmetic of the code is exact at    *)
(* them.                                                                   *)
(***************************************************************************)
PPQ == 960

RECURSIVE GCD(_, _)
GCD(a, b) == IF b = 0 THEN a ELSE GCD(b, a % b)

\* The double n / d, exactly
Fraction(n, d) == <<n \div GCD(n, d), d \div GCD(n, d)>>

\* static_cast<int64_t>(std::floor(x / q)) for an integer-valued x; q is
\* <<1, 0>> when the double is +infinity and has a negative numerator when
\* the double is negative
FloorOfQuotient(x, q) ==
    IF q[1] > 0 THEN (x * q[2]) \div q[1]
    ELSE 0 - ((x * q[2] + (0 - q[1]) - 1) \div (0 - q[1]))

\* The / and % of C++ on integers (truncation toward zero), for b # 0
CDiv(a, b) ==
    LET abs(x) == IF x < 0 THEN 0 - x ELSE x
        q == abs(a) \div abs(b)
    IN  IF (a < 0) = (b < 0) THEN q ELSE 0 - q
CMod(a, b) == a - b * CDiv(a, b)

Clock == [sample_rate_ |-> sample_rate_, bpm_ |-> bpm_,
          beats_per_bar_ |-> beats_per_bar_,
          samples_per_tick_ |-> samples_per_tick_,
          total_samples_ |-> total_samples_,
          total_samples_base_ |-> total_samples_base_,
          total_ticks_ |-> total_ticks_,
          total_ticks_base_ |-> total_ticks_base_]

\* MusicalClock::update_tick_duration
update_tick_duration(c) ==
    LET ticks_per_second == Fraction(c.bpm_ * PPQ, 60) IN
    [c EXCEPT !.samples_per_tick_ =
        IF ticks_per_second[1] > 0
        THEN Fraction(c.sample_rate_ * ticks_per_second[2],
                      ticks_per_second[1])
        ELSE IF ticks_per_second[1] = 0 THEN <<1, 0>>
        ELSE LET positive == Fraction(c.sample_rate_ * ticks_per_second[2],
                                      0 - ticks_per_second[1])
             IN  <<0 - positive[1], positive[2]>>]

\* MusicalClock::MusicalClock
MusicalClock_ctor(sample_rate, bpm) ==
    update_tick_duration(
        [sample_rate_ |-> sample_rate, bpm_ |-> bpm, beats_per_bar_ |-> 4,
         samples_per_tick_ |-> <<0, 1>>,
         total_samples_ |-> 0, total_samples_base_ |-> 0,
         total_ticks_ |-> 0, total_ticks_base_ |-> 0])

\* Variant of set_bpm that leaves the anchor where it was.
set_bpm_keep_anchor(c, bpm) == update_tick_duration([c EXCEPT !.bpm_ = bpm])

\* Variant of set_bpm that rescales the tick count to the new tempo.
set_bpm_rescaling(c, bpm) ==
    update_tick_duration(
        [c EXCEPT !.total_ticks_ = (c.total_ticks_ * bpm) \div c.bpm_,
                  !.total_ticks_base_ = (c.total_ticks_ * bpm) \div c.bpm_,
                  !.total_samples_base_ = c.total_samples_,
                  !.bpm_ = bpm])

\* MusicalClock::set_bpm
set_bpm(c, bpm) ==
    update_tick_duration(
        [c EXCEPT !.total_ticks_base_ = c.total_ticks_,
                  !.total_samples_base_ = c.total_samples_,
                  !.bpm_ = bpm])

\* MusicalClock::set_sample_rate
set_sample_rate(c, sample_rate) ==
    update_tick_duration(
        [c EXCEPT !.total_ticks_base_ = c.total_ticks_,
                  !.total_samples_base_ = c.total_samples_,
                  !.sample_rate_ = sample_rate])

\* MusicalClock::set_meter
set_meter(c, beats_per_bar) ==
    update_tick_duration([c EXCEPT !.beats_per_bar_ = beats_per_bar])

\* Variant of advance that adds the whole ticks of each block.
advance_per_block(c, num_samples) ==
    [c EXCEPT !.total_samples_ = c.total_samples_ + num_samples,
              !.total_ticks_ = c.total_ticks_
                    + FloorOfQuotient(num_samples, c.samples_per_tick_)]

\* MusicalClock::advance
advance(c, num_samples) ==
    LET total == c.total_samples_ + num_samples
        samples_since_base == total - c.total_samples_base_
        ticks_since_base ==
            FloorOfQuotient(samples_since_base, c.samples_per_tick_)
    IN  [c EXCEPT !.total_samples_ = total,
                  !.total_ticks_ = c.total_ticks_base_ + ticks_since_base]

\* MusicalClock::current_time
current_time(c) ==
    LET ticks_per_bar == PPQ * c.beats_per_bar_
        remaining == CMod(c.total_ticks_, ticks_per_bar)
    IN  [bar |-> CDiv(c.total_ticks_, ticks_per_bar) + 1,
         beat |-> CDiv(remaining, PPQ) + 1,
         tick |-> CMod(remaining, PPQ)]

\* What the callers pass
SampleRates == {44100, 48000}
Tempos == {60, 120}
Meters == {3, 4}
AdvanceSizes == {0, 25, 512, 43588, 44100, 1000000}

(***************************************************************************)
(* LockFreeRingBuffer                                                      *)
(*                                                                         *)
(* A LogEntry is copied into and out of the ring word by word; two words   *)
(* stand for the record.  The loads and stores of head and tail are the    *)
(* atomic steps; the release store of an index follows the copy it         *)
(* publishes and the acquire load precedes the copy it licenses, which is  *)
(* the order the steps below keep.                                         *)
(***************************************************************************)
\* The threads that call log_message / log_event
Producers == {"audio", "control"}

\* (i + 1) & mask
NextIndex(i) == (i + 1) % RingSize

\* Variant of the full test that never reports a full ring.
RingFull_never(h, t) == FALSE

\* push: ((h + 1) & mask) == t
RingFull(h, t) == NextIndex(h) = t

\* pop: t == h
RingEmpty(t, h) == t = h

\* The entries accepted and not yet released by a pop
Queued == Len(ring_hist.accepted) - Len(ring_hist.popped)

(***************************************************************************)
(* BufferPool                                                              *)
(***************************************************************************)
\* The threads that borrow blocks and drop handles
PoolThreads == {"t1", "t2"}

\* Variant of the mutex test under which the lock excludes nobody.
MutexFree_always == TRUE

\* std::lock_guard<std::mutex> lock(mutex_) proceeds when nobody holds it
MutexFree == mutex_ = "free"

\* pool_.back()
Back(pool) == pool[Len(pool)]

\* pool_.pop_back()
PopBack(pool) == SubSeq(pool, 1, Len(pool) - 1)

(***************************************************************************)
(* ModulationMatrix                                                        *)
(*                                                                         *)
(* Sources and targets are the values of the two enums; intensities and    *)
(* source values are floats in the source and small integers here.         *)
(***************************************************************************)
\* enum class ModulationSource
Envelope == 0
LFO == 1
SourceCount == 4

\* enum class ModulationTarget
Pitch == 0
Cutoff == 1
Amplitude == 3
TargetCount == 4

ConnectionIdx == 0..(MAX_CONNECTIONS - 1)

\* ModulationConnection::ModulationConnection
ModulationConnection_ctor ==
    [source |-> SourceCount, target |-> TargetCount, intensity |-> 0,
     active |-> FALSE]

\* ModulationMatrix::ModulationMatrix
ModulationMatrix_ctor == [i \in ConnectionIdx |-> ModulationConnection_ctor]

\* Variant of the first scan that never finds the pair.
FirstActivePair_none(conns, source, target) == -1

\* set_connection / clear_connection: the first active entry of the pair
FirstActivePair(conns, source, target) ==
    FirstIn({i \in ConnectionIdx : /\ conns[i].active
                                   /\ conns[i].source = source
                                   /\ conns[i].target = target})

\* Variant of the second scan that falls back on slot 0 when all are active.
FirstInactive_or_zero(conns) ==
    IF \E i \in ConnectionIdx : ~conns[i].active
    THEN FirstIn({i \in ConnectionIdx : ~conns[i].active})
    ELSE 0

\* set_connection: the first inactive entry
FirstInactive(conns) == FirstIn({i \in ConnectionIdx : ~conns[i].active})

\* Which return of set_connection a call takes
SetConnectionPath(conns, source, target) ==
    IF FirstActivePair(conns, source, target) # -1 THEN "set_update"
    ELSE IF FirstInactive(conns) # -1 THEN "set_fill"
    ELSE "set_full"

\* ModulationMatrix::set_connection
set_connection(conns, source, target, intensity) ==
    LET existing == FirstActivePair(conns, source, target)
        empty == FirstInactive(conns)
    IN  IF existing # -1 THEN [conns EXCEPT ![existing].intensity = intensity]
        ELSE IF empty # -1
        THEN [conns EXCEPT ![empty] = [source |-> source, target |-> target,
                                       intensity |-> intensity,
                                       active |-> TRUE]]
        ELSE conns

\* ModulationMatrix::clear_connection
clear_connection(conns, source, target) ==
    LET existing == FirstActivePair(conns, source, target) IN
    IF existing # -1 THEN [conns EXCEPT ![existing].active = FALSE] ELSE conns

\* ModulationMatrix::clear_all
clear_all(conns) == [i \in ConnectionIdx |-> [conns[i] EXCEPT !.active = FALSE]]

RECURSIVE sum_from(_, _, _, _)
sum_from(conns, i, target, source_values) ==
    IF i >= MAX_CONNECTIONS THEN 0
    ELSE (IF conns[i].active /\ conns[i].target = target
          THEN source_values[conns[i].source] * conns[i].intensity
          ELSE 0)
         + sum_from(conns, i + 1, target, source_values)

\* Variant of the sum that leaves out the test of the active flag.
RECURSIVE sum_from_any(_, _, _, _)
sum_from_any(conns, i, target, source_values) ==
    IF i >= MAX_CONNECTIONS THEN 0
    ELSE (IF conns[i].target = target
          THEN source_values[conns[i].source] * conns[i].intensity
          ELSE 0)
         + sum_from_any(conns, i + 1, target, source_values)

sum_for_target_any(conns, target, source_values) ==
    sum_from_any(conns, 0, target, source_values)

\* ModulationMatrix::sum_for_target
sum_for_target(conns, target, source_values) ==
    sum_from(conns, 0, target, source_values)

\* What the callers pass
Sources == {Envelope, LFO}
Targets == {Cutoff, Amplitude}
Intensities == {-1, 2}
SourceValues == [Sources -> {1, 3}]

(***************************************************************************)
(* AdsrEnvelopeProcessor with its level                                    *)
(*                                                                         *)
(* The floats of the envelope (level, times, rates) are kept exactly, as   *)
(* fractions <<num, den>> with den > 0.                                    *)
(***************************************************************************)
FrLeq(a, b) == a[1] * b[2] <= b[1] * a[2]
FrLess(a, b) == a[1] * b[2] < b[1] * a[2]
FrAdd(a, b) == Fraction(a[1] * b[2] + b[1] * a[2], a[2] * b[2])
\* a - b, for b <= a
FrSub(a, b) == Fraction(a[1] * b[2] - b[1] * a[2], a[2] * b[2])
\* a / b, for a >= 0 and b > 0
FrDiv(a, b) == Fraction(a[1] * b[2], a[2] * b[1])
FrMax(a, b) == IF FrLess(a, b) THEN b ELSE a
FrClamp(x, lo, hi) == IF FrLess(x, lo) THEN lo ELSE IF FrLess(hi, x) THEN hi ELSE x
FrZero == <<0, 1>>
FrOne == <<1, 1>>

\* 0.001f, the floor of the three times
MinTime == <<1, 1000>>

\* time * sample_rate_, in samples
SamplesOf(time, sample_rate) == Fraction(time[1] * sample_rate, time[2])

\* AdsrEnvelopeProcessor::update_rates
Adsr_update_rates(e) ==
    [e EXCEPT
        !.attack_rate_ = FrDiv(FrOne, SamplesOf(e.attack_time_, e.sample_rate_)),
        !.decay_rate_ = FrDiv(FrSub(FrOne, e.sustain_level_),
                              SamplesOf(e.decay_time_, e.sample_rate_)),
        !.release_rate_ = FrDiv(e.sustain_level_,
                                SamplesOf(e.release_time_, e.sample_rate_))]

\* AdsrEnvelopeProcessor::AdsrEnvelopeProcessor
Adsr_ctor(sample_rate) ==
    Adsr_update_rates(
        [sample_rate_ |-> sample_rate, state_ |-> "Idle",
         current_level_ |-> FrZero,
         attack_time_ |-> <<1, 100>>, decay_time_ |-> <<1, 10>>,
         sustain_level_ |-> <<7, 10>>, release_time_ |-> <<1, 5>>,
         attack_rate_ |-> FrZero, decay_rate_ |-> FrZero,
         release_rate_ |-> FrZero])

\* AdsrEnvelopeProcessor::gate_on
Adsr_gate_on(e) == Adsr_update_rates([e EXCEPT !.state_ = "Attack"])

\* AdsrEnvelopeProcessor::gate_off
Adsr_gate_off(e) ==
    IF e.state_ # "Idle"
    THEN Adsr_update_rates([e EXCEPT !.state_ = "Release"])
    ELSE e

\* AdsrEnvelopeProcessor::is_active
Adsr_is_active(e) == e.state_ # "Idle"

\* AdsrEnvelopeProcessor::reset
Adsr_reset(e) == [e EXCEPT !.state_ = "Idle", !.current_level_ = FrZero]

\* The four setters
Adsr_set_attack_time(e, seconds) ==
    Adsr_update_rates([e EXCEPT !.attack_time_ = FrMax(MinTime, seconds)])
Adsr_set_decay_time(e, seconds) ==
    Adsr_update_rates([e EXCEPT !.decay_time_ = FrMax(MinTime, seconds)])
Adsr_set_sustain_level(e, level) ==
    Adsr_update_rates([e EXCEPT !.sustain_level_ = FrClamp(level, FrZero, FrOne)])
Adsr_set_release_time(e, seconds) ==
    Adsr_update_rates([e EXCEPT !.release_time_ = FrMax(MinTime, seconds)])

\* Variant of process_sample whose release ends only once the level has
\* dropped below 0 (< in place of <=).
Adsr_process_sample_late_idle(e) ==
    CASE e.state_ = "Attack" ->
            LET level == FrAdd(e.current_level_, e.attack_rate_) IN
            IF FrLeq(FrOne, level)
            THEN [e EXCEPT !.current_level_ = FrOne, !.state_ = "Decay"]
            ELSE [e EXCEPT !.current_level_ = level]
      [] e.state_ = "Decay" ->
            IF FrLeq(e.current_level_, FrAdd(e.sustain_level_, e.decay_rate_))
            THEN [e EXCEPT !.current_level_ = e.sustain_level_,
                           !.state_ = "Sustain"]
            ELSE [e EXCEPT !.current_level_ = FrSub(@, e.decay_rate_)]
      [] e.state_ = "Sustain" ->
            [e EXCEPT !.current_level_ = e.sustain_level_]
      [] e.state_ = "Release" ->
            IF FrLess(e.current_level_, e.release_rate_)
            THEN [e EXCEPT !.current_level_ = FrZero, !.state_ = "Idle"]
            ELSE [e EXCEPT !.current_level_ = FrSub(@, e.release_rate_)]
      [] e.state_ = "Idle" ->
            [e EXCEPT !.current_level_ = FrZero]

\* AdsrEnvelopeProcessor::process_sample; the sample returned is the new
\* current_level_
Adsr_process_sample(e) ==
    CASE e.state_ = "Attack" ->
            LET level == FrAdd(e.current_level_, e.attack_rate_) IN
            IF FrLeq(FrOne, level)
            THEN [e EXCEPT !.current_level_ = FrOne, !.state_ = "Decay"]
            ELSE [e EXCEPT !.current_level_ = level]
      [] e.state_ = "Decay" ->
            \* current_level_ - decay_rate_ <= sustain_level_
            IF FrLeq(e.current_level_, FrAdd(e.sustain_level_, e.decay_rate_))
            THEN [e EXCEPT !.current_level_ = e.sustain_level_,
                           !.state_ = "Sustain"]
            ELSE [e EXCEPT !.current_level_ = FrSub(@, e.decay_rate_)]
      [] e.state_ = "Sustain" ->
            [e EXCEPT !.current_level_ = e.sustain_level_]
      [] e.state_ = "Release" ->
            \* current_level_ - release_rate_ <= 0
            IF FrLeq(e.current_level_, e.release_rate_)
            THEN [e EXCEPT !.current_level_ = FrZero, !.state_ = "Idle"]
            ELSE [e EXCEPT !.current_level_ = FrSub(@, e.release_rate_)]
      [] e.state_ = "Idle" ->
            [e EXCEPT !.current_level_ = FrZero]

\* AdsrEnvelopeProcessor::do_pull: n calls of process_sample; the samples
\* written, each with the state the envelope was left in
RECURSIVE Adsr_pull(_, _)
Adsr_pull(e, n) ==
    IF n = 0 THEN [env |-> e, out |-> <<>>]
    ELSE LET e1 == Adsr_process_sample(e)
             rest == Adsr_pull(e1, n - 1)
         IN  [env |-> rest.env,
              out |-> <<[sample |-> e1.current_level_,
                         state |-> e1.state_]>> \o rest.out]

(***************************************************************************)
(* Voice with its processors                                               *)
(*                                                                         *)
(* Phases, levels and modulation values are exact fractions.  The samples  *)
(* of the oscillators are functions of their phases, so a sample is kept   *)
(* as the phases it is computed from.  The filter works in place on a      *)
(* cleared buffer, which leaves its four stages at 0.                      *)
(***************************************************************************)
FrMul(a, b) == Fraction(a[1] * b[1], a[2] * b[2])
FrNeg(a) == <<0 - a[1], a[2]>>
FrHalf == <<1, 2>>

\* phase + inc, wrapped once into [0, 1)
WrapPhase(phase) == IF FrLeq(FrOne, phase) THEN FrSub(phase, FrOne) ELSE phase

\* std::sin(2.0 * M_PI * phase) for a phase in [0, 1), by Bhaskara's
\* rational formula 16 y / (5 - 4 y), y = 2p (1 - 2p), on the first half
\* turn (within 0.002 of the sine, exact at 0, 1/4 and 1/2)
SinTurn(phase) ==
    LET q == IF FrLess(phase, FrHalf) THEN phase ELSE FrSub(phase, FrHalf)
        y == FrMul(FrAdd(q, q), FrSub(FrOne, FrAdd(q, q)))
        half == FrDiv(FrMul(<<16, 1>>, y), FrSub(<<5, 1>>, FrMul(<<4, 1>>, y)))
    IN  IF FrLess(phase, FrHalf) THEN half ELSE FrNeg(half)

\* LfoProcessor::LfoProcessor; update_smoothing_coeff(0.01) gives
\* 1 - exp(-512 / (0.01 * sample_rate)), which is 1.0f for every sample
\* rate below 2960
Lfo_ctor(sample_rate) ==
    [sample_rate_ |-> sample_rate, phase_ |-> FrZero, frequency_ |-> 1,
     intensity_ |-> FrOne, smoothed_intensity_ |-> FrOne,
     smoothing_coeff_ |-> FrOne]

Lfo_set_frequency(l, freq) == [l EXCEPT !.frequency_ = freq]
Lfo_set_intensity(l, intensity) == [l EXCEPT !.intensity_ = intensity]

\* Variant of the reset that moves the smoothed intensity half of the way.
Lfo_reset_halfway(l) ==
    [l EXCEPT !.phase_ = FrZero,
              !.smoothed_intensity_ =
                  FrMul(FrHalf, FrAdd(l.smoothed_intensity_, l.intensity_))]

\* LfoProcessor::reset
Lfo_reset(l) ==
    [l EXCEPT !.phase_ = FrZero, !.smoothed_intensity_ = l.intensity_]

\* LfoProcessor::do_pull (Sine): one value for the whole block
Lfo_do_pull(l, frames) ==
    LET smoothed ==
            IF l.smoothed_intensity_ = l.intensity_ THEN l.intensity_
            ELSE IF FrLess(l.smoothed_intensity_, l.intensity_)
            THEN FrAdd(l.smoothed_intensity_,
                       FrMul(l.smoothing_coeff_,
                             FrSub(l.intensity_, l.smoothed_intensity_)))
            ELSE FrSub(l.smoothed_intensity_,
                       FrMul(l.smoothing_coeff_,
                             FrSub(l.smoothed_intensity_, l.intensity_)))
    IN  [lfo |-> [l EXCEPT
                    !.smoothed_intensity_ = smoothed,
                    !.phase_ = LET p == FrAdd(l.phase_,
                                              Fraction(l.frequency_ * frames,
                                                       l.sample_rate_))
                               IN  <<p[1] % p[2], p[2]>>],
         value |-> FrMul(SinTurn(l.phase_), smoothed)]

\* OscillatorProcessor::OscillatorProcessor with the phase of the subclass
Osc_ctor == [current_freq_ |-> 0, phase_ |-> FrZero]

\* OscillatorProcessor::set_frequency
Osc_set_frequency(o, freq) == [o EXCEPT !.current_freq_ = freq]

\* OscillatorProcessor::reset with reset_oscillator_state
Osc_reset(o) ==
    [current_freq_ |-> IF o.current_freq_ = 0 THEN 440 ELSE o.current_freq_,
     phase_ |-> FrZero]

\* generate_sample: the phase accumulator and its wrap
Osc_generate_sample(o, sample_rate) ==
    [o EXCEPT !.phase_ = WrapPhase(FrAdd(o.phase_,
                                         Fraction(o.current_freq_,
                                                  sample_rate)))]

RECURSIVE Osc_pull(_, _, _)
Osc_pull(o, sample_rate, n) ==
    IF n = 0 THEN [osc |-> o, out |-> <<>>]
    ELSE LET o1 == Osc_generate_sample(o, sample_rate)
             rest == Osc_pull(o1, sample_rate, n - 1)
         IN  [osc |-> rest.osc, out |-> <<o1.phase_>> \o rest.out]

Sub_ctor == [last_parent_phase_ |-> FrZero, wrap_counter_ |-> 0]

\* SubOscillator::reset
Sub_reset(sub) == Sub_ctor

\* SubOscillator::generate_sample
Sub_generate_sample(sub, parent_phase) ==
    [last_parent_phase_ |-> parent_phase,
     wrap_counter_ |-> IF FrLess(parent_phase, sub.last_parent_phase_)
                       THEN sub.wrap_counter_ + 1 ELSE sub.wrap_counter_]

\* Voice::Voice
FullVoice_ctor(sample_rate) ==
    [sample_rate_ |-> sample_rate,
     base_frequency_ |-> 440,
     base_amplitude_ |-> FrOne,
     oscillator_ |-> Osc_ctor,
     sub_oscillator_ |-> Sub_ctor,
     saw_oscillator_ |-> Osc_ctor,
     envelope_ |->
        Adsr_set_release_time(
            Adsr_set_sustain_level(
                Adsr_set_decay_time(
                    Adsr_set_attack_time(Adsr_ctor(sample_rate), <<15, 1000>>),
                    <<1, 1000>>),
                FrOne),
            <<50, 1000>>),
     filter_ |-> [stage_ |-> 0],
     lfo_ |-> Lfo_set_intensity(Lfo_set_frequency(Lfo_ctor(sample_rate), 5),
                                FrZero),
     matrix_ |-> set_connection(clear_all(ModulationMatrix_ctor),
                                Envelope, Amplitude, 1),
     current_source_values_ |-> [s \in Sources |-> FrZero]]

\* matrix_.sum_for_target(target, current_source_values_): the sum over the
\* source values brought to their common denominator
FullVoice_sum_for_target(v, target) ==
    LET values == v.current_source_values_
        common == values[Envelope][2] * values[LFO][2]
        scaled == [s \in Sources |-> values[s][1] * (common \div values[s][2])]
    IN  Fraction(sum_for_target(v.matrix_, target, scaled), common)

\* The six resets that Voice::note_on and Voice::reset both make
FullVoice_reset(v) ==
    [v EXCEPT !.oscillator_ = Osc_reset(@),
              !.sub_oscillator_ = Sub_reset(@),
              !.saw_oscillator_ = Osc_reset(@),
              !.envelope_ = Adsr_reset(@),
              !.lfo_ = Lfo_reset(@),
              !.filter_ = [stage_ |-> 0]]

\* Voice::note_on
FullVoice_note_on(v, frequency) ==
    LET r == FullVoice_reset([v EXCEPT !.base_frequency_ = frequency])
        f == [r EXCEPT !.oscillator_ = Osc_set_frequency(@, frequency),
                       !.saw_oscillator_ = Osc_set_frequency(@, frequency)]
        m == IF FrLeq(FullVoice_sum_for_target(f, Amplitude), <<1, 1000>>)
             THEN [f EXCEPT !.matrix_ =
                        set_connection(@, Envelope, Amplitude, 1)]
             ELSE f
    IN  [m EXCEPT !.envelope_ = Adsr_gate_on(@)]

\* Voice::note_off
FullVoice_note_off(v) == [v EXCEPT !.envelope_ = Adsr_gate_off(@)]

\* Voice::is_active
FullVoice_is_active(v) == Adsr_is_active(v.envelope_)

\* Voice::apply_modulation (the Amplitude target; no connection of the
\* model reaches Pitch, so the oscillator keeps base_frequency_)
FullVoice_apply_modulation(v) ==
    LET e == Adsr_pull(v.envelope_, 1)
        l == Lfo_do_pull(v.lfo_, 1)
        w == [v EXCEPT !.envelope_ = e.env,
                       !.lfo_ = l.lfo,
                       !.current_source_values_ =
                           (Envelope :> e.out[1].sample) @@ (LFO :> l.value),
                       !.oscillator_ = Osc_set_frequency(@, v.base_frequency_)]
    IN  [w EXCEPT !.base_amplitude_ =
            FrClamp(FullVoice_sum_for_target(w, Amplitude), FrZero, FrOne)]

\* The sample loop of Voice::do_pull(std::span<float>): tick the pulse
\* oscillator, lock the sub-oscillator to its phase
RECURSIVE FullVoice_sample_loop(_, _, _, _)
FullVoice_sample_loop(v, saw, current_env, i) ==
    IF i > Len(saw) THEN [voice |-> v, out |-> <<>>]
    ELSE LET pulse == Osc_generate_sample(v.oscillator_, v.sample_rate_)
             sub == Sub_generate_sample(v.sub_oscillator_, pulse.phase_)
             v1 == [v EXCEPT !.oscillator_ = pulse, !.sub_oscillator_ = sub]
             rest == FullVoice_sample_loop(v1, saw, current_env, i + 1)
         IN  [voice |-> rest.voice,
              out |-> <<[saw |-> saw[i], pulse |-> pulse.phase_,
                         sub |-> sub.wrap_counter_ % 2,
                         env |-> current_env]>> \o rest.out]

\* Voice::do_pull(std::span<float>) for a span of n samples
FullVoice_do_pull(v, n) ==
    LET saw == Osc_pull(Osc_set_frequency(v.saw_oscillator_,
                                          v.base_frequency_),
                        v.sample_rate_, n)
        e == Adsr_pull(v.envelope_, 1)
        v1 == [v EXCEPT !.saw_oscillator_ = saw.osc,
                        !.oscillator_ = Osc_set_frequency(@, v.base_frequency_),
                        !.envelope_ = e.env]
    IN  FullVoice_sample_loop(v1, saw.out, e.out[1].sample, 1)

\* Voice::do_pull(AudioBuffer&) for a cleared buffer of n frames: the graph
\* runs the filter, then the envelope writes its n samples
FullVoice_do_pull_stereo(v, n) ==
    LET m == FullVoice_apply_modulation(v)
        e == Adsr_pull(m.envelope_, n)
    IN  [voice |-> [m EXCEPT !.envelope_ = e.env],
         out |-> [i \in 1..n |-> [env |-> e.out[i].sample]]]

(***************************************************************************)
(* Actions of the voice manager                                            *)
(***************************************************************************)
vars == <<voices_, note_to_voice_map_, timestamp_counter_, lastOp,
          m_state, m_runningStatus, m_pendingStatus, m_pendingData1,
          emitted, fed, alphabet, input, clockvars, ringvars,
          vmthreads, poolvars, matrixvars, env, voice, call>>

\* What the actions of one object leave alone
others_vm == <<midivars, clockvars, ringvars, vmthreads, poolvars, matrixvars,
              env, voice, call>>
others_midi == <<vmvars, clockvars, ringvars, vmthreads, poolvars, matrixvars,
                env, voice, call>>
others_clock == <<vmvars, midivars, ringvars, vmthreads, poolvars, matrixvars,
                 env, voice, call>>
others_ring == <<vmvars, midivars, clockvars, vmthreads, poolvars, matrixvars,
                env, voice, call>>
others_vmthreads == <<midivars, clockvars, ringvars, poolvars, matrixvars,
                     env, voice, call>>
others_pool == <<vmvars, midivars, clockvars, ringvars, vmthreads,
                 matrixvars, env, voice, call>>
others_matrix == <<vmvars, midivars, clockvars, ringvars, vmthreads,
                   poolvars, env, voice, call>>
others_env == <<vmvars, midivars, clockvars, ringvars, vmthreads, poolvars,
               matrixvars, voice>>
others_voice == <<vmvars, midivars, clockvars, ringvars, vmthreads, poolvars,
                 matrixvars, env>>
others_engine == <<midivars, ringvars, vmthreads, poolvars, matrixvars,
                  env, voice>>

SetVM(vm) ==
    /\ voices_' = vm.voices
    /\ note_to_voice_map_' = vm.map
    /\ timestamp_counter_' = vm.ts

SetParser(ps) ==
    /\ m_state' = ps.m_state
    /\ m_runningStatus' = ps.m_runningStatus
    /\ m_pendingStatus' = ps.m_pendingStatus
    /\ m_pendingData1' = ps.m_pendingData1
    /\ emitted' = emitted \o ps.out

\* Construction of the manager and of a parser
InitObjects ==
    /\ voices_ = VoiceManager_ctor.voices
    /\ note_to_voice_map_ = VoiceManager_ctor.map
    /\ timestamp_counter_ = VoiceManager_ctor.ts
    /\ lastOp = "ctor"
    /\ m_state = MidiParser_ctor.m_state
    /\ m_runningStatus = MidiParser_ctor.m_runningStatus
    /\ m_pendingStatus = MidiParser_ctor.m_pendingStatus
    /\ m_pendingData1 = MidiParser_ctor.m_pendingData1
    /\ emitted = <<>>
    /\ fed = <<>>

ClockIs(c) ==
    /\ sample_rate_ = c.sample_rate_
    /\ bpm_ = c.bpm_
    /\ beats_per_bar_ = c.beats_per_bar_
    /\ samples_per_tick_ = c.samples_per_tick_
    /\ total_samples_ = c.total_samples_
    /\ total_samples_base_ = c.total_samples_base_
    /\ total_ticks_ = c.total_ticks_
    /\ total_ticks_base_ = c.total_ticks_base_
    /\ clk_anchors = <<[at |-> 0, bpm |-> c.bpm_,
                        sample_rate |-> c.sample_rate_]>>
    /\ clk_calls = [advance |-> 0, set |-> 0]
    /\ clk_ctl = [pc |-> "idle", bpm |-> 0, tmp |-> 0]
    /\ clk_aud = [pc |-> "idle", samples_since_base |-> 0,
                  ticks_since_base |-> 0, ticks_base |-> 0,
                  ticks_before |-> 0]

\* EngineHandleImpl: clock(static_cast<double>(sr)), at the default tempo
InitClockDefault == ClockIs(MusicalClock_ctor(48000, 120))

\* LockFreeRingBuffer: head{0}, tail{0}; no call in progress
InitRing ==
    /\ buffer = [i \in 0..(RingSize - 1) |-> <<0, 0>>]
    /\ head = 0
    /\ tail = 0
    /\ ring_prod = [th \in Producers |->
            [pc |-> "idle", h |-> 0, item |-> 0, result |-> "none",
             queued |-> 0, head_at_call |-> 0, copies_at_call |-> 0]]
    /\ ring_cons = [pc |-> "idle", t |-> 0, item |-> <<0, 0>>,
                    result |-> "none", queued |-> 0]
    /\ ring_hist = [attempts |-> 0, copies |-> 0, accepted |-> <<>>,
                    popped |-> <<>>]

\* No call on the manager in progress
InitVmThreads ==
    /\ vm_ctl = [pc |-> "idle"]
    /\ vm_aud = [next |-> 0]

InitIdle ==
    /\ InitObjects
    /\ InitVmThreads
    /\ alphabet = {}
    /\ input = <<>>

\* BufferPool::BufferPool
InitPool ==
    /\ pool_ = [i \in 1..PoolCapacity |-> i]
    /\ mutex_ = "free"
    /\ pool_threads = [th \in PoolThreads |->
            [pc |-> "idle", buffer |-> 0, held |-> {}]]
    /\ pool_made = PoolCapacity

\* ModulationMatrix::ModulationMatrix
InitMatrix ==
    /\ connections_ = ModulationMatrix_ctor
    /\ mx_args = [source |-> SourceCount, target |-> TargetCount,
                  intensity |-> 0]

\* A specification that exercises one object alone, as the unit tests do,
\* runs in a program that never constructs the others: their fields hold
\* nothing.
NotConstructed == <<>>

NoClock ==
    /\ sample_rate_ = NotConstructed
    /\ bpm_ = NotConstructed
    /\ beats_per_bar_ = NotConstructed
    /\ samples_per_tick_ = NotConstructed
    /\ total_samples_ = NotConstructed
    /\ total_samples_base_ = NotConstructed
    /\ total_ticks_ = NotConstructed
    /\ total_ticks_base_ = NotConstructed
    /\ clk_anchors = NotConstructed
    /\ clk_calls = NotConstructed
    /\ clk_ctl = NotConstructed
    /\ clk_aud = NotConstructed

NoRing ==
    /\ buffer = NotConstructed
    /\ head = NotConstructed
    /\ tail = NotConstructed
    /\ ring_prod = NotConstructed
    /\ ring_cons = NotConstructed
    /\ ring_hist = NotConstructed

NoPool ==
    /\ pool_ = NotConstructed
    /\ mutex_ = NotConstructed
    /\ pool_threads = NotConstructed
    /\ pool_made = NotConstructed

NoMatrix ==
    /\ connections_ = NotConstructed
    /\ mx_args = NotConstructed

NoEnvelope == env = NotConstructed

NoVoice == voice = NotConstructed

NoCall == call = NotConstructed

NoDsp == NoEnvelope /\ NoVoice /\ NoCall

\* The objects a specification does not drive
InitOthers_vm ==
    NoClock /\ NoRing /\ InitVmThreads /\ NoPool /\ NoMatrix /\ NoDsp
InitOthers_midi ==
    NoClock /\ NoRing /\ InitVmThreads /\ NoPool /\ NoMatrix /\ NoDsp
InitOthers_vmthreads ==
    InitClockDefault /\ InitRing /\ InitPool /\ InitMatrix /\ NoDsp
InitOthers_clock == InitIdle /\ NoRing /\ NoPool /\ NoMatrix /\ NoDsp
InitOthers_ring == InitIdle /\ NoClock /\ NoPool /\ NoMatrix /\ NoDsp
InitOthers_pool == InitIdle /\ NoClock /\ NoRing /\ NoMatrix /\ NoDsp
InitOthers_matrix == InitIdle /\ NoClock /\ NoRing /\ NoPool /\ NoDsp
InitOthers_env ==
    InitIdle /\ NoClock /\ NoRing /\ NoPool /\ NoMatrix /\ NoVoice
InitOthers_voice ==
    InitIdle /\ NoClock /\ NoRing /\ NoPool /\ NoMatrix /\ NoEnvelope
InitOthers_engine ==
    /\ InitVmThreads /\ NoRing /\ NoPool /\ NoMatrix /\ NoEnvelope /\ NoVoice

Init ==
    /\ InitObjects
    /\ alphabet = {}
    /\ input = <<>>
    /\ InitOthers_vm

NoteOn(p) ==
    /\ timestamp_counter_ < MaxTime
    /\ SetVM(note_on(VM, p))
    /\ UNCHANGED others_vm
    /\ lastOp' = NoteOnPath(VM, p)

NoteOff(p) ==
    /\ SetVM(note_off(VM, p))
    /\ UNCHANGED others_vm
    /\ lastOp' = IF note_off(VM, p) = VM THEN "note_off_miss" ELSE "note_off_hit"

HandleMidiEvent(ev) ==
    /\ isNoteOn(ev) => timestamp_counter_ < MaxTime
    /\ SetVM(handleMidiEvent(VM, ev))
    /\ UNCHANGED others_vm
    /\ lastOp' = IF isNoteOn(ev) THEN "midi_on"
                 ELSE IF isNoteOff(ev) THEN "midi_off" ELSE "midi_other"

Reset ==
    /\ SetVM(reset(VM))
    /\ UNCHANGED others_vm
    /\ lastOp' = "reset"

Render ==
    \E adv \in Advances(VM) :
        /\ SetVM(do_pull(VM, adv))
        /\ UNCHANGED others_vm
        /\ lastOp' = "render"

\* The manager driven by direct calls
Next ==
    \/ \E p \in Pitches : NoteOn(p)
    \/ \E p \in Pitches : NoteOff(p)
    \/ Reset
    \/ Render

Spec == Init /\ [][Next]_vars

\* The manager driven by MIDI events only
NextDispatch ==
    \/ \E ev \in DispatchEvents : HandleMidiEvent(ev)
    \/ Reset
    \/ Render

SpecDispatch == Init /\ [][NextDispatch]_vars

\* The manager driven by direct calls and MIDI events
NextAll ==
    \/ \E p \in Pitches : NoteOn(p)
    \/ \E p \in Pitches : NoteOff(p)
    \/ \E ev \in DispatchEvents : HandleMidiEvent(ev)
    \/ Reset
    \/ Render

SpecAll == Init /\ [][NextAll]_vars

(***************************************************************************)
(* The manager with engine_note_on / engine_note_off on a control thread   *)
(* and do_pull on the driver thread.  Neither side synchronises; the steps *)
(* below are the statements of the idle path of note_on and the loop body  *)
(* of do_pull, each taken as a whole.                                      *)
(***************************************************************************)
\* note_on, lines 31-48 (and the whole call on the retrigger and steal
\* paths): the retrigger test and the scan for an idle voice
NoteOnCtl_scan(note) ==
    /\ vm_ctl.pc = "idle"
    /\ timestamp_counter_ < MaxTime
    /\ IF NoteOnPath(VM, note) = "idle"
       THEN /\ vm_ctl' = [pc |-> "claim", note |-> note,
                          idle_idx |-> IdleIdx(VM)]
            /\ UNCHANGED vmvars
       ELSE /\ SetVM(note_on(VM, note))
            /\ UNCHANGED vm_ctl
    /\ UNCHANGED vm_aud

\* note_on, lines 51-55: the slot fields and the note map
NoteOnCtl_claim ==
    /\ vm_ctl.pc = "claim"
    /\ voices_' = [voices_ EXCEPT ![vm_ctl.idle_idx] =
            [@ EXCEPT !.current_note = vm_ctl.note, !.active = TRUE,
                      !.last_note_on_time = timestamp_counter_ + 1]]
    /\ timestamp_counter_' = timestamp_counter_ + 1
    /\ note_to_voice_map_' =
            [note_to_voice_map_ EXCEPT ![Mask7(vm_ctl.note)] = vm_ctl.idle_idx]
    /\ vm_ctl' = [vm_ctl EXCEPT !.pc = "gate"]
    /\ UNCHANGED vm_aud

\* note_on, line 56: slot.voice->note_on(freq)
NoteOnCtl_gate ==
    /\ vm_ctl.pc = "gate"
    /\ voices_' = [voices_ EXCEPT ![vm_ctl.idle_idx].env = Voice_note_on(@)]
    /\ vm_ctl' = [pc |-> "idle"]
    /\ UNCHANGED <<note_to_voice_map_, timestamp_counter_, vm_aud>>

\* engine_note_off on the control thread
NoteOffCtl(note) ==
    /\ vm_ctl.pc = "idle"
    /\ SetVM(note_off(VM, note))
    /\ UNCHANGED vmthreads

\* do_pull, lines 152-171: one iteration of the loop over the slots
RenderSlot ==
    /\ \E e \in process_sample(voices_[vm_aud.next].env) :
          SetVM(do_pull_slot(VM, vm_aud.next, [i \in Slots |-> e]))
    /\ vm_aud' = [next |-> (vm_aud.next + 1) % MAX_VOICES]
    /\ UNCHANGED vm_ctl

InitEngine == Init /\ lastOp = "ctor"

NextEngine ==
    \/ /\ \/ \E p \in Pitches : NoteOnCtl_scan(p)
          \/ NoteOnCtl_claim
          \/ NoteOnCtl_gate
          \/ \E p \in Pitches : NoteOffCtl(p)
       /\ lastOp' = "control"
       /\ UNCHANGED others_vmthreads
    \/ RenderSlot /\ lastOp' = "render_slot" /\ UNCHANGED others_vmthreads

SpecEngine == InitEngine /\ [][NextEngine]_vars

(***************************************************************************)
(* The parser fed with arbitrary byte streams                              *)
(***************************************************************************)
InitMidi ==
    /\ InitOthers_midi
    /\ InitObjects
    /\ alphabet \in Alphabets
    /\ input = <<>>

\* One call of MidiParser::parse(data, size, sampleOffset, callback)
Parse(data, sampleOffset) ==
    /\ Len(fed) + Len(data) <= MaxStream
    /\ SetParser(parse(Parser, data, sampleOffset))
    /\ fed' = fed \o data
    /\ lastOp' = "parse"
    /\ UNCHANGED <<others_midi, alphabet, input>>

NextMidi ==
    \E data \in SeqsUpTo(alphabet, MaxChunk) : \E off \in SampleOffsets :
        Parse(data, off)

SpecMidi == InitMidi /\ [][NextMidi]_vars

(***************************************************************************)
(* The parser fed with a running-status stream, in calls of any size       *)
(***************************************************************************)
InitRS ==
    /\ InitObjects
    /\ InitOthers_midi
    /\ alphabet = {}
    /\ \E s \in TwoByteStatuses :
       \E groups \in [1..NumGroups -> [1..2 -> DataBytes]] :
       \E rep \in BOOLEAN :
          input = RunningStream(s, groups, rep)

\* One call of MidiParser::parse on the next k bytes of the stream
ParseNext(k, sampleOffset) ==
    /\ k <= Len(input)
    /\ SetParser(parse(Parser, SubSeq(input, 1, k), sampleOffset))
    /\ fed' = fed \o SubSeq(input, 1, k)
    /\ input' = SubSeq(input, k + 1, Len(input))
    /\ lastOp' = "parse"
    /\ UNCHANGED <<others_midi, alphabet>>

NextRS ==
    \E k \in 1..(2 * NumGroups + 2) : \E off \in SampleOffsets :
        ParseNext(k, off)

SpecRS == InitRS /\ [][NextRS]_vars

(***************************************************************************)
(* The clock driven by one thread                                          *)
(***************************************************************************)
SetClock(c) ==
    /\ sample_rate_' = c.sample_rate_
    /\ bpm_' = c.bpm_
    /\ beats_per_bar_' = c.beats_per_bar_
    /\ samples_per_tick_' = c.samples_per_tick_
    /\ total_samples_' = c.total_samples_
    /\ total_samples_base_' = c.total_samples_base_
    /\ total_ticks_' = c.total_ticks_
    /\ total_ticks_base_' = c.total_ticks_base_

InitClock ==
    /\ InitOthers_clock
    /\ \E sample_rate \in SampleRates : \E bpm \in Tempos :
          ClockIs(MusicalClock_ctor(sample_rate, bpm))

\* engine_process: clock.advance(frames)
Advance(num_samples) ==
    /\ clk_calls.advance < MaxAdvances
    /\ total_samples_ + num_samples <= MaxSamples
    /\ SetClock(advance(Clock, num_samples))
    /\ clk_calls' = [clk_calls EXCEPT !.advance = @ + 1]
    /\ lastOp' = "advance"
    /\ UNCHANGED <<clk_anchors, clk_threads, others_clock>>

\* engine_set_bpm: clock.set_bpm(bpm)
SetBpm(bpm) ==
    /\ clk_calls.set < MaxSetters
    /\ SetClock(set_bpm(Clock, bpm))
    /\ clk_anchors' = Append(clk_anchors,
            [at |-> total_samples_, bpm |-> bpm, sample_rate |-> sample_rate_])
    /\ clk_calls' = [clk_calls EXCEPT !.set = @ + 1]
    /\ lastOp' = "set_bpm"
    /\ UNCHANGED <<clk_threads, others_clock>>

SetSampleRate(sample_rate) ==
    /\ clk_calls.set < MaxSetters
    /\ SetClock(set_sample_rate(Clock, sample_rate))
    /\ clk_anchors' = Append(clk_anchors,
            [at |-> total_samples_, bpm |-> bpm_, sample_rate |-> sample_rate])
    /\ clk_calls' = [clk_calls EXCEPT !.set = @ + 1]
    /\ lastOp' = "set_sample_rate"
    /\ UNCHANGED <<clk_threads, others_clock>>

\* engine_set_meter: clock.set_meter(beats_per_bar)
SetMeter(beats_per_bar) ==
    /\ clk_calls.set < MaxSetters
    /\ SetClock(set_meter(Clock, beats_per_bar))
    /\ clk_calls' = [clk_calls EXCEPT !.set = @ + 1]
    /\ lastOp' = "set_meter"
    /\ UNCHANGED <<clk_anchors, clk_threads, others_clock>>

NextClock ==
    \/ \E num_samples \in AdvanceSizes : Advance(num_samples)
    \/ \E bpm \in Tempos : SetBpm(bpm)
    \/ \E sample_rate \in SampleRates : SetSampleRate(sample_rate)
    \/ \E beats_per_bar \in Meters : SetMeter(beats_per_bar)

SpecClock == InitClock /\ [][NextClock]_vars

(***************************************************************************)
(* The clock with set_bpm on a control thread and advance on the audio     *)
(* thread.  Neither function synchronises, so the two run interleaved at   *)
(* the grain of the single field reads and writes of their statements.     *)
(***************************************************************************)
RaceBlocks == {25, 512}

\* set_bpm, line 41: the read of total_ticks_
Ctl_read_ticks(bpm) ==
    /\ clk_ctl.pc = "idle"
    /\ clk_calls.set < MaxSetters
    /\ clk_ctl' = [pc |-> "w_ticks_base", bpm |-> bpm, tmp |-> total_ticks_]
    /\ UNCHANGED <<sample_rate_, bpm_, beats_per_bar_, samples_per_tick_,
                   total_samples_, total_samples_base_, total_ticks_,
                   total_ticks_base_, clk_anchors, clk_calls, clk_aud>>

\* set_bpm, line 41: the write of total_ticks_base_
Ctl_write_ticks_base ==
    /\ clk_ctl.pc = "w_ticks_base"
    /\ total_ticks_base_' = clk_ctl.tmp
    /\ clk_ctl' = [clk_ctl EXCEPT !.pc = "r_samples"]
    /\ UNCHANGED <<sample_rate_, bpm_, beats_per_bar_, samples_per_tick_,
                   total_samples_, total_samples_base_, total_ticks_,
                   clk_anchors, clk_calls, clk_aud>>

\* set_bpm, line 42: the read of total_samples_
Ctl_read_samples ==
    /\ clk_ctl.pc = "r_samples"
    /\ clk_ctl' = [clk_ctl EXCEPT !.pc = "w_samples_base",
                                  !.tmp = total_samples_]
    /\ UNCHANGED <<sample_rate_, bpm_, beats_per_bar_, samples_per_tick_,
                   total_samples_, total_samples_base_, total_ticks_,
                   total_ticks_base_, clk_anchors, clk_calls, clk_aud>>

\* set_bpm, line 42: the write of total_samples_base_
Ctl_write_samples_base ==
    /\ clk_ctl.pc = "w_samples_base"
    /\ total_samples_base_' = clk_ctl.tmp
    /\ clk_ctl' = [clk_ctl EXCEPT !.pc = "w_bpm"]
    /\ UNCHANGED <<sample_rate_, bpm_, beats_per_bar_, samples_per_tick_,
                   total_samples_, total_ticks_, total_ticks_base_,
                   clk_anchors, clk_calls, clk_aud>>

\* set_bpm, line 43: bpm_ = bpm
Ctl_write_bpm ==
    /\ clk_ctl.pc = "w_bpm"
    /\ bpm_' = clk_ctl.bpm
    /\ clk_ctl' = [clk_ctl EXCEPT !.pc = "update"]
    /\ UNCHANGED <<sample_rate_, beats_per_bar_, samples_per_tick_,
                   total_samples_, total_samples_base_, total_ticks_,
                   total_ticks_base_, clk_anchors, clk_calls, clk_aud>>

\* set_bpm, line 44: update_tick_duration() writes samples_per_tick_
Ctl_update_tick_duration ==
    /\ clk_ctl.pc = "update"
    /\ samples_per_tick_' = update_tick_duration(Clock).samples_per_tick_
    /\ clk_ctl' = [clk_ctl EXCEPT !.pc = "idle"]
    /\ clk_anchors' = Append(clk_anchors,
            [at |-> total_samples_base_, bpm |-> bpm_,
             sample_rate |-> sample_rate_])
    /\ clk_calls' = [clk_calls EXCEPT !.set = @ + 1]
    /\ UNCHANGED <<sample_rate_, bpm_, beats_per_bar_, total_samples_,
                   total_samples_base_, total_ticks_, total_ticks_base_,
                   clk_aud>>

\* advance, line 64: total_samples_ += num_samples
Aud_add_samples(num_samples) ==
    /\ clk_aud.pc = "idle"
    /\ clk_calls.advance < MaxAdvances
    /\ total_samples_' = total_samples_ + num_samples
    /\ clk_aud' = [clk_aud EXCEPT !.pc = "r_samples_base"]
    /\ UNCHANGED <<sample_rate_, bpm_, beats_per_bar_, samples_per_tick_,
                   total_samples_base_, total_ticks_, total_ticks_base_,
                   clk_anchors, clk_calls, clk_ctl>>

\* advance, line 67: samples_since_base reads total_samples_base_
Aud_read_samples_base ==
    /\ clk_aud.pc = "r_samples_base"
    /\ clk_aud' = [clk_aud EXCEPT !.pc = "r_samples_per_tick",
            !.samples_since_base = total_samples_ - total_samples_base_]
    /\ UNCHANGED <<sample_rate_, bpm_, beats_per_bar_, samples_per_tick_,
                   total_samples_, total_samples_base_, total_ticks_,
                   total_ticks_base_, clk_anchors, clk_calls, clk_ctl>>

\* advance, line 68: ticks_since_base reads samples_per_tick_
Aud_read_samples_per_tick ==
    /\ clk_aud.pc = "r_samples_per_tick"
    /\ clk_aud' = [clk_aud EXCEPT !.pc = "r_ticks_base",
            !.ticks_since_base =
                FloorOfQuotient(clk_aud.samples_since_base, samples_per_tick_)]
    /\ UNCHANGED <<sample_rate_, bpm_, beats_per_bar_, samples_per_tick_,
                   total_samples_, total_samples_base_, total_ticks_,
                   total_ticks_base_, clk_anchors, clk_calls, clk_ctl>>

\* advance, line 70: the read of total_ticks_base_
Aud_read_ticks_base ==
    /\ clk_aud.pc = "r_ticks_base"
    /\ clk_aud' = [clk_aud EXCEPT !.pc = "w_ticks",
                                  !.ticks_base = total_ticks_base_]
    /\ UNCHANGED <<sample_rate_, bpm_, beats_per_bar_, samples_per_tick_,
                   total_samples_, total_samples_base_, total_ticks_,
                   total_ticks_base_, clk_anchors, clk_calls, clk_ctl>>

\* advance, line 70: the write of total_ticks_
Aud_write_ticks ==
    /\ clk_aud.pc = "w_ticks"
    /\ total_ticks_' = clk_aud.ticks_base + clk_aud.ticks_since_base
    /\ clk_aud' = [clk_aud EXCEPT !.pc = "idle",
                                  !.ticks_before = total_ticks_]
    /\ clk_calls' = [clk_calls EXCEPT !.advance = @ + 1]
    /\ UNCHANGED <<sample_rate_, bpm_, beats_per_bar_, samples_per_tick_,
                   total_samples_, total_samples_base_, total_ticks_base_,
                   clk_anchors, clk_ctl>>

ControlThread ==
    \/ \E bpm \in Tempos : Ctl_read_ticks(bpm)
    \/ Ctl_write_ticks_base
    \/ Ctl_read_samples
    \/ Ctl_write_samples_base
    \/ Ctl_write_bpm
    \/ Ctl_update_tick_duration

AudioThread ==
    \/ \E num_samples \in RaceBlocks : Aud_add_samples(num_samples)
    \/ Aud_read_samples_base
    \/ Aud_read_samples_per_tick
    \/ Aud_read_ticks_base
    \/ Aud_write_ticks

NextClockRace ==
    \/ ControlThread /\ lastOp' = "control" /\ UNCHANGED others_clock
    \/ AudioThread /\ lastOp' = "audio" /\ UNCHANGED others_clock

SpecClockRace == InitClock /\ [][NextClockRace]_vars

(***************************************************************************)
(* The log ring: push and pop, one atomic step at a time                   *)
(***************************************************************************)
\* push, line 37: h = head.load(relaxed)
Push_load_head(th) ==
    /\ ring_prod[th].pc = "idle"
    /\ ring_hist.attempts < MaxPushes
    /\ ring_prod' = [ring_prod EXCEPT ![th] =
            [@ EXCEPT !.pc = "load_tail", !.h = head,
                      !.item = ring_hist.attempts + 1, !.result = "none",
                      !.head_at_call = head,
                      !.copies_at_call = ring_hist.copies]]
    /\ ring_hist' = [ring_hist EXCEPT !.attempts = @ + 1]
    /\ UNCHANGED <<buffer, head, tail, ring_cons>>

\* push, lines 38-42: t = tail.load(acquire); return false when full
Push_load_tail(th) ==
    /\ ring_prod[th].pc = "load_tail"
    /\ ring_prod' = [ring_prod EXCEPT ![th] =
            IF RingFull(ring_prod[th].h, tail)
            THEN [@ EXCEPT !.pc = "idle", !.queued = Queued,
                           !.result = "false"]
            ELSE [@ EXCEPT !.pc = "copy1", !.queued = Queued]]
    /\ UNCHANGED <<buffer, head, tail, ring_cons, ring_hist>>

\* push, line 44: buffer[h] = item, first word
Push_copy1(th) ==
    /\ ring_prod[th].pc = "copy1"
    /\ buffer' = [buffer EXCEPT ![ring_prod[th].h][1] = ring_prod[th].item]
    /\ ring_prod' = [ring_prod EXCEPT ![th].pc = "copy2"]
    /\ ring_hist' = [ring_hist EXCEPT !.copies = @ + 1]
    /\ UNCHANGED <<head, tail, ring_cons>>

\* push, line 44: buffer[h] = item, second word
Push_copy2(th) ==
    /\ ring_prod[th].pc = "copy2"
    /\ buffer' = [buffer EXCEPT ![ring_prod[th].h][2] = ring_prod[th].item]
    /\ ring_prod' = [ring_prod EXCEPT ![th].pc = "store_head"]
    /\ ring_hist' = [ring_hist EXCEPT !.copies = @ + 1]
    /\ UNCHANGED <<head, tail, ring_cons>>

\* push, lines 45-46: head.store((h + 1) & mask, release); return true
Push_store_head(th) ==
    /\ ring_prod[th].pc = "store_head"
    /\ head' = NextIndex(ring_prod[th].h)
    /\ ring_prod' = [ring_prod EXCEPT ![th].pc = "idle",
                                      ![th].result = "true"]
    /\ ring_hist' = [ring_hist EXCEPT
            !.accepted = Append(@, ring_prod[th].item)]
    /\ UNCHANGED <<buffer, tail, ring_cons>>

\* log_message / log_event on thread th
Push(th) ==
    \/ Push_load_head(th)
    \/ Push_load_tail(th)
    \/ Push_copy1(th)
    \/ Push_copy2(th)
    \/ Push_store_head(th)

\* pop, line 50: t = tail.load(relaxed)
Pop_load_tail ==
    /\ ring_cons.pc = "idle"
    /\ ring_cons' = [ring_cons EXCEPT !.pc = "load_head", !.t = tail,
                                      !.result = "none"]
    /\ UNCHANGED <<buffer, head, tail, ring_prod, ring_hist>>

\* pop, lines 51-55: h = head.load(acquire); return nullopt when empty
Pop_load_head ==
    /\ ring_cons.pc = "load_head"
    /\ ring_cons' =
            IF RingEmpty(ring_cons.t, head)
            THEN [ring_cons EXCEPT !.pc = "idle", !.queued = Queued,
                                   !.result = "nullopt"]
            ELSE [ring_cons EXCEPT !.pc = "copy1", !.queued = Queued]
    /\ UNCHANGED <<buffer, head, tail, ring_prod, ring_hist>>

\* pop, line 57: item = buffer[t], first word
Pop_copy1 ==
    /\ ring_cons.pc = "copy1"
    /\ ring_cons' = [ring_cons EXCEPT !.pc = "copy2",
                                      !.item[1] = buffer[ring_cons.t][1]]
    /\ UNCHANGED <<buffer, head, tail, ring_prod, ring_hist>>

\* pop, line 57: item = buffer[t], second word
Pop_copy2 ==
    /\ ring_cons.pc = "copy2"
    /\ ring_cons' = [ring_cons EXCEPT !.pc = "store_tail",
                                      !.item[2] = buffer[ring_cons.t][2]]
    /\ UNCHANGED <<buffer, head, tail, ring_prod, ring_hist>>

\* pop, lines 58-59: tail.store((t + 1) & mask, release); return item
Pop_store_tail ==
    /\ ring_cons.pc = "store_tail"
    /\ tail' = NextIndex(ring_cons.t)
    /\ ring_cons' = [ring_cons EXCEPT !.pc = "idle", !.result = "item"]
    /\ ring_hist' = [ring_hist EXCEPT !.popped = Append(@, ring_cons.item)]
    /\ UNCHANGED <<buffer, head, ring_prod>>

\* pop_entry on the draining thread
Pop ==
    \/ Pop_load_tail
    \/ Pop_load_head
    \/ Pop_copy1
    \/ Pop_copy2
    \/ Pop_store_tail

InitSpecRing == InitOthers_ring /\ lastOp = "ctor" /\ InitRing

\* One producer (the audio thread) and one consumer
NextRing ==
    \/ Push("audio") /\ lastOp' = "push" /\ UNCHANGED others_ring
    \/ Pop /\ lastOp' = "pop" /\ UNCHANGED others_ring

SpecRing == InitSpecRing /\ [][NextRing]_vars

\* The ring as the engine uses it: the driver thread pushes while it renders
\* (PROC_US after each callback, REPAIR_ENV in Voice::do_pull), a control
\* thread pushes inside engine_note_on (Gate On in gate_on, VoiceSteal in
\* note_on) and in audio_log_event, and nothing orders the two.
NextRingEngine ==
    \/ /\ ring_hist.attempts < MaxEnginePushes \/ ring_prod["audio"].pc # "idle"
       /\ Push("audio") /\ lastOp' = "push" /\ UNCHANGED others_ring
    \/ /\ ring_hist.attempts < MaxEnginePushes
             \/ ring_prod["control"].pc # "idle"
       /\ Push("control") /\ lastOp' = "push_control"
       /\ UNCHANGED others_ring
    \/ Pop /\ lastOp' = "pop" /\ UNCHANGED others_ring

SpecRingEngine == InitSpecRing /\ [][NextRingEngine]_vars

(***************************************************************************)
(* The buffer pool used by several threads                                 *)
(***************************************************************************)
\* borrow, line 53: the lock is taken
Borrow_lock(th) ==
    /\ pool_threads[th].pc = "idle"
    /\ MutexFree
    /\ mutex_' = th
    /\ pool_threads' = [pool_threads EXCEPT ![th].pc = "borrow_test"]
    /\ UNCHANGED <<pool_, pool_made>>

\* borrow, lines 56-59: a new block when the pool is empty, else
\* buffer = std::move(pool_.back())
Borrow_back(th) ==
    /\ pool_threads[th].pc = "borrow_test"
    /\ IF pool_ = <<>>
       THEN /\ pool_made < PoolCapacity + MaxFabricated
            /\ pool_made' = pool_made + 1
            /\ pool_threads' = [pool_threads EXCEPT
                    ![th].pc = "borrow_return", ![th].buffer = pool_made + 1]
       ELSE /\ pool_threads' = [pool_threads EXCEPT
                    ![th].pc = "borrow_pop", ![th].buffer = Back(pool_)]
            /\ UNCHANGED pool_made
    /\ UNCHANGED <<pool_, mutex_>>

\* borrow, line 60: pool_.pop_back()
Borrow_pop_back(th) ==
    /\ pool_threads[th].pc = "borrow_pop"
    /\ pool_' = PopBack(pool_)
    /\ pool_threads' = [pool_threads EXCEPT ![th].pc = "borrow_return"]
    /\ UNCHANGED <<mutex_, pool_made>>

\* borrow, lines 69-70: the handle is returned and the lock released
Borrow_return(th) ==
    /\ pool_threads[th].pc = "borrow_return"
    /\ pool_threads' = [pool_threads EXCEPT
            ![th].pc = "idle", ![th].buffer = 0,
            ![th].held = @ \cup {pool_threads[th].buffer}]
    /\ mutex_' = IF mutex_ = th THEN "free" ELSE mutex_
    /\ UNCHANGED <<pool_, pool_made>>

\* The deleter of a handle, line 65: the lock is taken
Release_lock(th, b) ==
    /\ pool_threads[th].pc = "idle"
    /\ b \in pool_threads[th].held
    /\ MutexFree
    /\ mutex_' = th
    /\ pool_threads' = [pool_threads EXCEPT
            ![th].pc = "release_push", ![th].buffer = b, ![th].held = @ \ {b}]
    /\ UNCHANGED <<pool_, pool_made>>

\* The deleter, lines 66-67: pool_.push_back(b) and the lock released
Release_push_back(th) ==
    /\ pool_threads[th].pc = "release_push"
    /\ pool_' = Append(pool_, pool_threads[th].buffer)
    /\ pool_threads' = [pool_threads EXCEPT ![th].pc = "idle", ![th].buffer = 0]
    /\ mutex_' = IF mutex_ = th THEN "free" ELSE mutex_
    /\ UNCHANGED pool_made

InitSpecPool == InitOthers_pool /\ InitPool

NextPool ==
    \E th \in PoolThreads :
        /\ \/ Borrow_lock(th)
           \/ Borrow_back(th)
           \/ Borrow_pop_back(th)
           \/ Borrow_return(th)
           \/ \E b \in 1..(PoolCapacity + MaxFabricated) : Release_lock(th, b)
           \/ Release_push_back(th)
        /\ lastOp' = "pool"
        /\ UNCHANGED others_pool

SpecPool == InitSpecPool /\ [][NextPool]_vars

(***************************************************************************)
(* One modulation matrix                                                   *)
(***************************************************************************)
SetConnection(source, target, intensity) ==
    /\ connections_' = set_connection(connections_, source, target, intensity)
    /\ mx_args' = [source |-> source, target |-> target,
                   intensity |-> intensity]
    /\ lastOp' = SetConnectionPath(connections_, source, target)
    /\ UNCHANGED others_matrix

ClearConnection(source, target) ==
    /\ connections_' = clear_connection(connections_, source, target)
    /\ mx_args' = [source |-> source, target |-> target, intensity |-> 0]
    /\ lastOp' = "clear_connection"
    /\ UNCHANGED others_matrix

\* engine_clear_modulations: matrix().clear_all()
ClearAll ==
    /\ connections_' = clear_all(connections_)
    /\ mx_args' = [source |-> SourceCount, target |-> TargetCount,
                   intensity |-> 0]
    /\ lastOp' = "clear_all"
    /\ UNCHANGED others_matrix

InitSpecMatrix == InitOthers_matrix /\ InitMatrix

NextMatrix ==
    \/ \E source \in Sources : \E target \in Targets :
       \E intensity \in Intensities :
          SetConnection(source, target, intensity)
    \/ \E source \in Sources : \E target \in Targets :
          ClearConnection(source, target)
    \/ ClearAll

SpecMatrix == InitSpecMatrix /\ [][NextMatrix]_vars

(***************************************************************************)
(* One ADSR envelope driven by its owner                                   *)
(***************************************************************************)
\* What the callers pass: a sample rate, times in seconds (0 is raised to
\* the floor of 1 ms) and sustain levels (clamped to [0, 1])
EnvSampleRates == {100}
EnvTimes == {<<0, 1>>, <<1, 25>>}
EnvLevels == {<<-1, 1>>, <<0, 1>>, <<1, 2>>, <<2, 1>>}

InitEnv ==
    /\ InitOthers_env
    /\ \E sample_rate \in EnvSampleRates : env = Adsr_ctor(sample_rate)
    /\ call = [op |-> "ctor", out |-> <<>>]
    /\ lastOp = "ctor"

EnvCall(e, op, out) ==
    /\ env' = e
    /\ call' = [op |-> op, out |-> out]
    /\ lastOp' = op
    /\ UNCHANGED <<vmvars, midivars, clockvars, ringvars, vmthreads,
                   poolvars, matrixvars, voice>>

SetAttackTime(seconds) ==
    EnvCall(Adsr_set_attack_time(env, seconds), "set_attack_time", <<>>)
SetDecayTime(seconds) ==
    EnvCall(Adsr_set_decay_time(env, seconds), "set_decay_time", <<>>)
SetSustainLevel(level) ==
    EnvCall(Adsr_set_sustain_level(env, level), "set_sustain_level", <<>>)
SetReleaseTime(seconds) ==
    EnvCall(Adsr_set_release_time(env, seconds), "set_release_time", <<>>)
GateOn == EnvCall(Adsr_gate_on(env), "gate_on", <<>>)
GateOff ==
    EnvCall(Adsr_gate_off(env),
            IF Adsr_is_active(env) THEN "gate_off" ELSE "gate_off_idle", <<>>)
EnvReset == EnvCall(Adsr_reset(env), "reset", <<>>)
\* env.pull(span) with a span of n samples
EnvPull(n) ==
    LET r == Adsr_pull(env, n) IN EnvCall(r.env, "pull", r.out)

NextEnv ==
    \/ \E seconds \in EnvTimes : SetAttackTime(seconds)
    \/ \E seconds \in EnvTimes : SetDecayTime(seconds)
    \/ \E level \in EnvLevels : SetSustainLevel(level)
    \/ \E seconds \in EnvTimes : SetReleaseTime(seconds)
    \/ GateOn
    \/ GateOff
    \/ EnvReset
    \/ \E n \in 1..MaxEnvBlock : EnvPull(n)

SpecEnv == InitEnv /\ [][NextEnv]_vars

\* The envelope of a released voice: once gate_off has put it in Release the
\* owner only pulls it, and the audio callback keeps pulling
RenderPull == \E n \in 1..MaxEnvBlock : EnvPull(n)

NextEnvRelease ==
    \/ env.state_ # "Release" /\ NextEnv
    \/ env.state_ = "Release" /\ RenderPull

SpecEnvRelease == InitEnv /\ [][NextEnvRelease]_vars /\ WF_vars(RenderPull)

(***************************************************************************)
(* One Voice driven by its owner                                           *)
(***************************************************************************)
\* What the owner passes
VoiceSampleRates == {1000}
NoteFrequencies == {440}
LfoIntensities == {FrZero, FrOne}
VoiceIntensities == {2}

InitVoice ==
    /\ InitOthers_voice
    /\ \E sample_rate \in VoiceSampleRates : voice = FullVoice_ctor(sample_rate)
    /\ call = [op |-> "ctor", out |-> <<>>, pulls |-> 0, before |-> <<>>]
    /\ lastOp = "ctor"

VoiceCall(v, op, out, pulls, before) ==
    /\ voice' = v
    /\ call' = [op |-> op, out |-> out, pulls |-> pulls, before |-> before]
    /\ lastOp' = op
    /\ UNCHANGED <<vmvars, midivars, clockvars, ringvars, vmthreads,
                   poolvars, matrixvars, env>>

VoiceNoteOn(frequency) ==
    VoiceCall(FullVoice_note_on(voice, frequency), "note_on", <<>>,
              call.pulls, <<>>)
VoiceNoteOff ==
    VoiceCall(FullVoice_note_off(voice), "note_off", <<>>, call.pulls, <<>>)
VoiceReset ==
    VoiceCall(FullVoice_reset(voice), "reset", <<>>, call.pulls,
              [active |-> FullVoice_is_active(voice),
               smoothing |-> voice.lfo_.smoothed_intensity_
                                # voice.lfo_.intensity_])
\* voice.pull(span) with a span of n samples
VoicePull(n) ==
    /\ call.pulls < MaxVoicePulls
    /\ LET r == FullVoice_do_pull(voice, n) IN
        VoiceCall(r.voice, "pull", r.out, call.pulls + 1, <<>>)
\* voice.pull(buffer) with a cleared stereo buffer of n frames
VoicePullStereo(n) ==
    /\ call.pulls < MaxVoicePulls
    /\ LET r == FullVoice_do_pull_stereo(voice, n) IN
        VoiceCall(r.voice, "pull_stereo", r.out, call.pulls + 1, <<>>)
\* voice.matrix().set_connection(source, Amplitude, intensity)
VoiceSetConnection(source, intensity) ==
    VoiceCall([voice EXCEPT !.matrix_ =
                   set_connection(@, source, Amplitude, intensity)],
              "set_connection", <<>>, call.pulls, <<>>)
\* voice.matrix().clear_connection(source, Amplitude)
VoiceClearConnection(source) ==
    VoiceCall([voice EXCEPT !.matrix_ = clear_connection(@, source, Amplitude)],
              "clear_connection", <<>>, call.pulls, <<>>)
\* voice.matrix().clear_all(), as engine_clear_modulations does
VoiceClearAll ==
    VoiceCall([voice EXCEPT !.matrix_ = clear_all(@)], "clear_all", <<>>,
              call.pulls, <<>>)
\* voice.lfo().set_intensity(intensity)
VoiceLfoSetIntensity(intensity) ==
    VoiceCall([voice EXCEPT !.lfo_ = Lfo_set_intensity(@, intensity)],
              "lfo_set_intensity", <<>>, call.pulls, <<>>)

NextVoice ==
    \/ \E frequency \in NoteFrequencies : VoiceNoteOn(frequency)
    \/ VoiceNoteOff
    \/ VoiceReset
    \/ \E n \in 0..MaxVoiceBlock : VoicePull(n)
    \/ \E n \in 0..MaxVoiceBlock : VoicePullStereo(n)
    \/ \E source \in Sources, intensity \in VoiceIntensities :
            VoiceSetConnection(source, intensity)
    \/ \E source \in Sources : VoiceClearConnection(source)
    \/ VoiceClearAll
    \/ \E intensity \in LfoIntensities : VoiceLfoSetIntensity(intensity)

SpecVoice == InitVoice /\ [][NextVoice]_vars

\* The same Voice under an owner that leaves the matrix as constructed
NextVoiceDefault ==
    \/ \E frequency \in NoteFrequencies : VoiceNoteOn(frequency)
    \/ VoiceNoteOff
    \/ VoiceReset
    \/ \E n \in 0..MaxVoiceBlock : VoicePull(n)
    \/ \E n \in 0..MaxVoiceBlock : VoicePullStereo(n)
    \/ \E intensity \in LfoIntensities : VoiceLfoSetIntensity(intensity)

SpecVoiceDefault == InitVoice /\ [][NextVoiceDefault]_vars

(***************************************************************************)
(* The engine facade: clock, voice manager and the driver callback         *)
(*                                                                         *)
(* A buffer is kept as its size in frames; an access to it as one more     *)
(* than the highest index read or written.  A pull that runs past a        *)
(* buffer is recorded and the run goes on as if the memory past it had     *)
(* been free.                                                              *)
(***************************************************************************)
\* AudioGraph::AudioGraph: the frames of every pooled block
buffer_size == 512
\* The block size the engine gives its driver
DriverFrames == 512

\* What the host passes
Handles == {"null", "engine"}
Outputs == {"null", "buffer"}
FrameCounts == {0, 1, 512, 513}
FacadePitches == {0}
FacadeTempos == {-60, 0, 60}
FacadeMeters == {-3, 0, 3}

\* Whether the slot loop of VoiceManager::do_pull pulls a voice
PullsVoice(vm) ==
    \E i \in Slots : vm.voices[i].active /\ Voice_is_active(vm.voices[i].env)

\* VoiceManager::do_pull(std::span<float>) with Voice::do_pull: the caller's
\* span, the manager's voice_span and the voice's saw_span
MonoAccesses(vm, n) ==
    {[buffer |-> "output", size |-> n, touched |-> n],
     [buffer |-> "voice_span", size |-> buffer_size,
      touched |-> IF PullsVoice(vm) THEN n ELSE 0],
     [buffer |-> "saw_span", size |-> buffer_size,
      touched |-> IF PullsVoice(vm) THEN n ELSE 0]}

\* VoiceManager::do_pull(AudioBuffer&): the caller's buffer and voice_buf
StereoAccesses(vm, n) ==
    {[buffer |-> "output", size |-> n, touched |-> n],
     [buffer |-> "voice_buf", size |-> buffer_size,
      touched |-> IF PullsVoice(vm) THEN n ELSE 0]}

InitFacade ==
    /\ InitObjects
    /\ alphabet = {}
    /\ input = <<>>
    /\ InitOthers_engine
    /\ InitClockDefault
    /\ call = [op |-> "engine_create", arg |-> 0, status |-> 0,
               rendered |-> 0, renders |-> 0, sets |-> 0,
               accesses |-> {}, before |-> <<>>, result |-> <<>>]

FacadeFrame == <<clk_anchors, clk_calls, clk_threads, others_engine>>

\* engine_process
EngineProcess(handle, output, frames) ==
    IF handle = "null" \/ output = "null" \/ frames = 0
    THEN /\ call' = [call EXCEPT !.op = "engine_process_rejected",
                                 !.arg = frames, !.status = -1,
                                 !.accesses = {}, !.before = <<>>,
                                 !.result = <<>>]
         /\ lastOp' = "engine_process_rejected"
         /\ UNCHANGED <<vmvars, sample_rate_, bpm_, beats_per_bar_,
                        samples_per_tick_, total_samples_,
                        total_samples_base_, total_ticks_, total_ticks_base_,
                        FacadeFrame>>
    ELSE /\ call.renders < MaxRenders
         /\ SetClock(advance(Clock, frames))
         /\ \E adv \in Advances(VM) : SetVM(do_pull(VM, adv))
         /\ call' = [call EXCEPT !.op = "engine_process", !.arg = frames,
                                 !.status = 0,
                                 !.rendered = @ + frames,
                                 !.renders = @ + 1,
                                 !.accesses = MonoAccesses(VM, frames),
                                 !.before = <<>>, !.result = <<>>]
         /\ lastOp' = "engine_process"
         /\ UNCHANGED FacadeFrame

\* The stereo callback that EngineHandleImpl gives the driver
DriverCallback ==
    /\ call.renders < MaxRenders
    /\ \E adv \in Advances(VM) : SetVM(do_pull(VM, adv))
    /\ call' = [call EXCEPT !.op = "driver_callback", !.arg = DriverFrames,
                            !.status = 0,
                            !.rendered = @ + DriverFrames,
                            !.renders = @ + 1,
                            !.accesses = StereoAccesses(VM, DriverFrames),
                            !.before = <<>>, !.result = <<>>]
    /\ lastOp' = "driver_callback"
    /\ UNCHANGED <<sample_rate_, bpm_, beats_per_bar_, samples_per_tick_,
                   total_samples_, total_samples_base_, total_ticks_,
                   total_ticks_base_, FacadeFrame>>

\* engine_note_on
EngineNoteOn(note) ==
    /\ timestamp_counter_ < MaxTime
    /\ SetVM(note_on(VM, note))
    /\ call' = [call EXCEPT !.op = "engine_note_on", !.arg = note,
                            !.status = 0, !.accesses = {},
                            !.before = <<>>, !.result = <<>>]
    /\ lastOp' = "engine_note_on"
    /\ UNCHANGED <<sample_rate_, bpm_, beats_per_bar_, samples_per_tick_,
                   total_samples_, total_samples_base_, total_ticks_,
                   total_ticks_base_, FacadeFrame>>

\* engine_set_bpm
EngineSetBpm(bpm) ==
    /\ call.sets < MaxClockSets
    /\ SetClock(set_bpm(Clock, bpm))
    /\ call' = [call EXCEPT !.op = "engine_set_bpm", !.arg = bpm,
                            !.status = 0, !.sets = @ + 1, !.accesses = {},
                            !.before = Clock, !.result = <<>>]
    /\ lastOp' = "engine_set_bpm"
    /\ UNCHANGED <<vmvars, FacadeFrame>>

\* engine_set_meter
EngineSetMeter(beats_per_bar) ==
    /\ call.sets < MaxClockSets
    /\ SetClock(set_meter(Clock, beats_per_bar))
    /\ call' = [call EXCEPT !.op = "engine_set_meter", !.arg = beats_per_bar,
                            !.status = 0, !.sets = @ + 1, !.accesses = {},
                            !.before = Clock, !.result = <<>>]
    /\ lastOp' = "engine_set_meter"
    /\ UNCHANGED <<vmvars, FacadeFrame>>

\* engine_get_musical_time; with beats_per_bar_ = 0 current_time divides by
\* zero and returns nothing defined
EngineGetMusicalTime ==
    /\ call' = [call EXCEPT !.op = "engine_get_musical_time", !.arg = 0,
                            !.status = 0, !.accesses = {}, !.before = <<>>,
                            !.result = IF PPQ * beats_per_bar_ = 0
                                       THEN "undefined"
                                       ELSE current_time(Clock)]
    /\ lastOp' = "engine_get_musical_time"
    /\ UNCHANGED <<vmvars, sample_rate_, bpm_, beats_per_bar_,
                   samples_per_tick_, total_samples_, total_samples_base_,
                   total_ticks_, total_ticks_base_, FacadeFrame>>

NextFacade ==
    \/ \E handle \in Handles, output \in Outputs, frames \in FrameCounts :
            EngineProcess(handle, output, frames)
    \/ DriverCallback
    \/ \E note \in FacadePitches : EngineNoteOn(note)
    \/ \E bpm \in FacadeTempos : EngineSetBpm(bpm)
    \/ \E beats_per_bar \in FacadeMeters : EngineSetMeter(beats_per_bar)
    \/ EngineGetMusicalTime

SpecFacade == InitFacade /\ [][NextFacade]_vars

(***************************************************************************)
(* Note names at the engine facade                                         *)
(***************************************************************************)
\* Longest spelling handed to engine_note_on_name
MaxNameLen == 3

\* Notes started by name in one run
MaxNamedNotes == 2

\* The characters the spellings are made of: two letters, the accidentals
\* (b is also the lower-case letter B), a sign, two digits and a character
\* that belongs to no spelling
NoteChars == {"A", "C", "b", "#", "-", "1", "4", "x"}

NoteNames == UNION {[1..n -> NoteChars] : n \in 0..MaxNameLen}

\* The entries of note_to_voice_map_ (note & 0x7F)
MidiPitches == 0..127

\* std::toupper, std::tolower over NoteChars
toupper(ch) == CASE ch = "b" -> "B" [] ch = "x" -> "X" [] OTHER -> ch
tolower(ch) == CASE ch = "A" -> "a" [] ch = "C" -> "c" [] OTHER -> ch

\* Note::Note(std::string_view): the table of known names
name_to_offset ==
    (<<"C">> :> 0) @@ (<<"C", "#">> :> 1) @@ (<<"D", "B">> :> 1) @@
    (<<"D">> :> 2) @@ (<<"D", "#">> :> 3) @@ (<<"E", "B">> :> 3) @@
    (<<"E">> :> 4) @@ (<<"F">> :> 5) @@ (<<"F", "#">> :> 6) @@
    (<<"G", "B">> :> 6) @@ (<<"G">> :> 7) @@ (<<"G", "#">> :> 8) @@
    (<<"A", "B">> :> 8) @@ (<<"A">> :> 9) @@ (<<"A", "#">> :> 10) @@
    (<<"B", "B">> :> 10) @@ (<<"B">> :> 11)

IsDigit(ch) == ch \in {"0", "1", "2", "3", "4", "5", "6", "7", "8", "9"}

DigitValue(ch) ==
    CASE ch = "0" -> 0 [] ch = "1" -> 1 [] ch = "2" -> 2 [] ch = "3" -> 3
      [] ch = "4" -> 4 [] ch = "5" -> 5 [] ch = "6" -> 6 [] ch = "7" -> 7
      [] ch = "8" -> 8 [] ch = "9" -> 9

\* The leading digits of s: how many there are and their decimal value
RECURSIVE DigitRun(_, _)
DigitRun(s, acc) ==
    IF s = <<>> \/ ~IsDigit(Head(s)) THEN acc
    ELSE DigitRun(Tail(s), <<acc[1] + 1, acc[2] * 10 + DigitValue(Head(s))>>)

\* std::stoi: an optional sign, then the longest run of digits; whatever
\* follows the digits is ignored, and no digit at all throws
\* std::invalid_argument (NoteChars holds no white space to skip)
stoi(s) ==
    LET signed == s # <<>> /\ Head(s) \in {"-", "+"}
        run    == DigitRun(IF signed THEN Tail(s) ELSE s, <<0, 0>>)
    IN  IF run[1] = 0 THEN [thrown |-> TRUE, value |-> 0]
        ELSE [thrown |-> FALSE,
              value  |-> IF signed /\ Head(s) = "-" THEN 0 - run[2]
                         ELSE run[2]]

\* Note::Note(std::string_view)
Note_ctor(name) ==
    LET invalid_argument == [thrown |-> TRUE, midi_note_ |-> 0] IN
    IF name = <<>> THEN invalid_argument
    ELSE
    LET upper_name ==
            IF 1 < Len(name) /\ (name[2] = "#" \/ tolower(name[2]) = "b")
            THEN <<toupper(name[1]), toupper(name[2])>>
            ELSE <<toupper(name[1])>>
        i == Len(upper_name)
    IN  IF upper_name \notin DOMAIN name_to_offset THEN invalid_argument
        ELSE IF i >= Len(name) THEN invalid_argument
        ELSE LET octave == stoi(SubSeq(name, i + 1, Len(name))) IN
             IF octave.thrown THEN invalid_argument
             ELSE [thrown |-> FALSE,
                   midi_note_ |-> (octave.value + 1) * 12
                                      + name_to_offset[upper_name]]

\* What a spelling denotes: a letter A..G in either case, an optional # or b,
\* then an octave made of an optional minus sign and digits, and nothing
\* else; the pitch is (octave + 1) * 12 + semitone
Spelled(name) ==
    LET semitone == ("C" :> 0) @@ ("D" :> 2) @@ ("E" :> 4) @@ ("F" :> 5) @@
                    ("G" :> 7) @@ ("A" :> 9) @@ ("B" :> 11)
        accidental == IF 1 < Len(name) /\ name[2] = "#" THEN 1
                      ELSE IF 1 < Len(name) /\ name[2] = "b" THEN -1
                      ELSE 0
        rest   == SubSeq(name, IF accidental = 0 THEN 2 ELSE 3, Len(name))
        minus  == rest # <<>> /\ Head(rest) = "-"
        digits == IF minus THEN Tail(rest) ELSE rest
        octave == IF minus THEN 0 - DigitRun(digits, <<0, 0>>)[2]
                  ELSE DigitRun(digits, <<0, 0>>)[2]
    IN  IF /\ name # <<>>
           /\ toupper(name[1]) \in DOMAIN semitone
           /\ digits # <<>>
           /\ \A k \in 1..Len(digits) : IsDigit(digits[k])
        THEN [wellformed |-> TRUE,
              pitch |-> (octave + 1) * 12 + semitone[toupper(name[1])]
                            + accidental]
        ELSE [wellformed |-> FALSE, pitch |-> -1]

\* engine_create: a manager whose note map has all its 128 entries
InitNoteName ==
    /\ voices_ = VoiceManager_ctor.voices
    /\ note_to_voice_map_ = [p \in MidiPitches |-> -1]
    /\ timestamp_counter_ = VoiceManager_ctor.ts
    /\ lastOp = "ctor"
    /\ m_state = MidiParser_ctor.m_state
    /\ m_runningStatus = MidiParser_ctor.m_runningStatus
    /\ m_pendingStatus = MidiParser_ctor.m_pendingStatus
    /\ m_pendingData1 = MidiParser_ctor.m_pendingData1
    /\ emitted = <<>>
    /\ fed = <<>>
    /\ alphabet = {}
    /\ input = <<>>
    /\ InitOthers_engine
    /\ InitClockDefault
    /\ call = [op |-> "engine_create", wellformed |-> FALSE, pitch |-> -1,
               status |-> 0, before |-> <<>>]

\* engine_note_on_name
EngineNoteOnName(handle, name) ==
    LET note == Note_ctor(name) IN
    /\ IF handle = "null"
       THEN /\ call' = [call EXCEPT !.op = "engine_note_on_name_rejected",
                                    !.wellformed = FALSE, !.pitch = -1,
                                    !.status = -1, !.before = <<>>]
            /\ UNCHANGED vmvars
       ELSE IF note.thrown
       THEN /\ call' = [op |-> "engine_note_on_name",
                        wellformed |-> Spelled(name).wellformed,
                        pitch |-> Spelled(name).pitch,
                        status |-> -1,
                        before |-> [vm |-> VM, clock |-> Clock]]
            /\ UNCHANGED vmvars
       ELSE /\ timestamp_counter_ < MaxNamedNotes
            /\ SetVM(note_on(VM, note.midi_note_))
            /\ call' = [op |-> "engine_note_on_name",
                        wellformed |-> Spelled(name).wellformed,
                        pitch |-> Spelled(name).pitch,
                        status |-> 0,
                        before |-> [vm |-> VM, clock |-> Clock]]
    /\ lastOp' = "engine_note_on_name"
    /\ UNCHANGED <<sample_rate_, bpm_, beats_per_bar_, samples_per_tick_,
                   total_samples_, total_samples_base_, total_ticks_,
                   total_ticks_base_, FacadeFrame>>

NextNoteName ==
    \E handle \in Handles, name \in NoteNames : EngineNoteOnName(handle, name)

SpecNoteName == InitNoteName /\ [][NextNoteName]_vars

(***************************************************************************)
(* The voice manager and the pan of its voices                             *)
(*                                                                         *)
(* voice holds, for every slot, the pan_ field of the slot's Voice.        *)
(***************************************************************************)
\* The pans the host asks for (1.5 is passed as 2: both clamp to 1)
PanValues == {-1, 1, 2}

\* Voice::set_pan
Voice_set_pan(pan) == IF pan < -1 THEN -1 ELSE IF pan > 1 THEN 1 ELSE pan

\* What VoiceManager::note_on does to the pans: only the steal path calls
\* set_pan(0.0f); Voice::reset and Voice::note_on leave pan_ alone
note_on_pans(vm, pans, note) ==
    IF NoteOnPath(vm, note) \in {"steal_release", "steal_oldest"}
       /\ CandidateIdx(vm) # -1
    THEN [pans EXCEPT ![CandidateIdx(vm)].pan_ = Voice_set_pan(0)]
    ELSE pans

\* VoiceManager::set_note_pan, on the manager vm
set_note_pan(vm, pans, note, pan) ==
    LET voice_idx == vm.map[Mask7(note)] IN
    IF voice_idx # -1 /\ vm.voices[voice_idx].active
                      /\ vm.voices[voice_idx].current_note = note
    THEN [pans EXCEPT ![voice_idx].pan_ = Voice_set_pan(pan)]
    ELSE pans

\* VoiceManager::VoiceManager: every Voice is constructed with pan_(0.0f)
InitPan ==
    /\ InitObjects
    /\ alphabet = {}
    /\ input = <<>>
    /\ NoClock /\ NoRing /\ InitVmThreads /\ NoPool /\ NoMatrix
    /\ NoEnvelope /\ NoCall
    /\ voice = [i \in Slots |-> [pan_ |-> 0]]

PanFrame == <<midivars, clockvars, ringvars, vmthreads, poolvars, matrixvars,
              env, call>>

\* voice_manager.note_on(p, velocity)
PanNoteOn(p) ==
    /\ timestamp_counter_ < MaxTime
    /\ SetVM(note_on(VM, p))
    /\ voice' = note_on_pans(VM, voice, p)
    /\ lastOp' = NoteOnPath(VM, p)
    /\ UNCHANGED PanFrame

\* voice_manager.note_on_panned(p, velocity, pan)
PanNoteOnPanned(p, pan) ==
    /\ timestamp_counter_ < MaxTime
    /\ SetVM(note_on(VM, p))
    /\ voice' = set_note_pan(note_on(VM, p), note_on_pans(VM, voice, p), p, pan)
    /\ lastOp' = "note_on_panned"
    /\ UNCHANGED PanFrame

\* voice_manager.set_note_pan(p, pan)
PanSetNotePan(p, pan) ==
    /\ voice' = set_note_pan(VM, voice, p, pan)
    /\ lastOp' = "set_note_pan"
    /\ UNCHANGED <<vmvars, PanFrame>>

NextPan ==
    \/ \E p \in Pitches : PanNoteOn(p)
    \/ \E p \in Pitches, pan \in PanValues : PanNoteOnPanned(p, pan)
    \/ \E p \in Pitches, pan \in PanValues : PanSetNotePan(p, pan)
    \/ \E p \in Pitches : NoteOff(p)
    \/ Reset
    \/ Render

SpecPan == InitPan /\ [][NextPan]_vars

(***************************************************************************)
(* Pool, matrix and log ring of one program                                *)
(*                                                                         *)
(* The pool and a matrix are used while the drain thread reads the log     *)
(* ring.  Neither BufferPool::borrow nor ModulationMatrix::set_connection  *)
(* calls the logger, so the ring has no producer here.                     *)
(***************************************************************************)
InitExhaustion ==
    /\ InitIdle /\ NoClock /\ NoDsp
    /\ InitRing
    /\ InitPool
    /\ InitMatrix

\* engine_set_modulation(handle, source, target, 1.0f) on one voice
EngineSetModulation(source, target) == SetConnection(source, target, 1)

NextExhaustion ==
    \/ NextPool
    \/ \E source \in Sources : \E target \in Targets :
          EngineSetModulation(source, target)
    \/ Pop /\ lastOp' = "pop" /\ UNCHANGED others_ring

SpecExhaustion == InitExhaustion /\ [][NextExhaustion]_vars

(***************************************************************************)
(* Handles at the C API                                                    *)
(*                                                                         *)
(* A host holds an engine handle, an envelope handle and an oscillator     *)
(* handle, and may pass any of them, or null, to any function.  Every      *)
(* function tests the handle for null and then static_casts it to the type *)
(* it expects; on a handle of another type the members it goes on to use   *)
(* are those of an object of the wrong class, which is undefined: the call *)
(* may return or the process may end, and the object the handle points to  *)
(* may be left as it was or damaged.                                       *)
(***************************************************************************)
HandleKinds == {"null", "Oscillator", "Envelope", "Engine"}

\* What a call through a mistyped pointer can end in
UBOutcomes == {"returned", "crashed"}

ApiPitches == {0, 1}
ApiTempos == {60}

\* The objects behind the handles
ApiObjects == [vm |-> VM, clock |-> Clock, env |-> env]

\* engine_create and envelope_create(ENV_ADSR, sample_rate)
InitHandles ==
    /\ InitObjects
    /\ alphabet = {}
    /\ input = <<>>
    /\ InitVmThreads /\ NoRing /\ NoPool /\ NoMatrix /\ NoVoice
    /\ InitClockDefault
    /\ \E sample_rate \in EnvSampleRates : env = Adsr_ctor(sample_rate)
    /\ call = [op |-> "create", handle |-> "Engine", expects |-> "Engine",
               returns |-> "int", status |-> 0, deref |-> "none",
               outcome |-> "returned", before |-> <<>>]

HandlesFrame == <<midivars, ringvars, vmthreads, poolvars, matrixvars, voice,
                  total_ticks_, total_ticks_base_, total_samples_,
                  total_samples_base_, clk_anchors, clk_calls, clk_threads>>

\* The object a handle of kind k points to, overwritten
Damage(objs, k) ==
    CASE k = "Envelope" -> [objs EXCEPT !.env.state_ = "Garbage"]
      [] k = "Engine"   -> [objs EXCEPT !.clock.bpm_ = 0]
      [] OTHER          -> objs

SetApiObjects(objs) ==
    /\ SetVM(objs.vm)
    /\ sample_rate_' = objs.clock.sample_rate_
    /\ bpm_' = objs.clock.bpm_
    /\ beats_per_bar_' = objs.clock.beats_per_bar_
    /\ samples_per_tick_' = objs.clock.samples_per_tick_
    /\ env' = objs.env

\* A C-API function that tests for null, casts the handle to `expects` and
\* uses it; effect is what it does to the objects when the handle has that
\* type, returns is "void" or "int"
ApiCall(op, handle, expects, returns, effect) ==
    /\ call.outcome = "returned"
    /\ lastOp' = op
    /\ UNCHANGED HandlesFrame
    /\ IF handle = "null"
       THEN /\ SetApiObjects(ApiObjects)
            /\ call' = [op |-> op, handle |-> handle, expects |-> expects,
                        returns |-> returns, status |-> -1, deref |-> "none",
                        outcome |-> "returned", before |-> ApiObjects]
       ELSE IF handle = expects
       THEN /\ SetApiObjects(effect)
            /\ call' = [op |-> op, handle |-> handle, expects |-> expects,
                        returns |-> returns, status |-> 0, deref |-> expects,
                        outcome |-> "returned", before |-> ApiObjects]
       ELSE \E outcome \in UBOutcomes, damaged \in BOOLEAN :
            /\ SetApiObjects(IF damaged THEN Damage(ApiObjects, handle)
                             ELSE ApiObjects)
            /\ call' = [op |-> op, handle |-> handle, expects |-> expects,
                        returns |-> returns, status |-> 0, deref |-> expects,
                        outcome |-> outcome, before |-> ApiObjects]

\* engine_note_on
ApiEngineNoteOn(handle, note) ==
    /\ handle = "Engine" => timestamp_counter_ < MaxTime
    /\ ApiCall("engine_note_on", handle, "Engine", "void",
               [ApiObjects EXCEPT !.vm = note_on(VM, note)])

\* engine_note_off
ApiEngineNoteOff(handle, note) ==
    ApiCall("engine_note_off", handle, "Engine", "void",
            [ApiObjects EXCEPT !.vm = note_off(VM, note)])

\* engine_set_bpm
ApiEngineSetBpm(handle, bpm) ==
    ApiCall("engine_set_bpm", handle, "Engine", "int",
            [ApiObjects EXCEPT !.clock = set_bpm(Clock, bpm)])

\* envelope_gate_on
ApiEnvelopeGateOn(handle) ==
    ApiCall("envelope_gate_on", handle, "Envelope", "int",
            [ApiObjects EXCEPT !.env = Adsr_gate_on(env)])

\* envelope_gate_off
ApiEnvelopeGateOff(handle) ==
    ApiCall("envelope_gate_off", handle, "Envelope", "int",
            [ApiObjects EXCEPT !.env = Adsr_gate_off(env)])

\* engine_set_filter_type: returns 0 without looking at the handle
ApiEngineSetFilterType(handle) ==
    /\ call.outcome = "returned"
    /\ lastOp' = "engine_set_filter_type"
    /\ SetApiObjects(ApiObjects)
    /\ call' = [op |-> "engine_set_filter_type", handle |-> handle,
                expects |-> "Engine", returns |-> "int", status |-> 0,
                deref |-> "none", outcome |-> "returned",
                before |-> ApiObjects]
    /\ UNCHANGED HandlesFrame

NextHandles ==
    \/ \E handle \in HandleKinds, note \in ApiPitches :
            ApiEngineNoteOn(handle, note)
    \/ \E handle \in HandleKinds, note \in ApiPitches :
            ApiEngineNoteOff(handle, note)
    \/ \E handle \in HandleKinds, bpm \in ApiTempos :
            ApiEngineSetBpm(handle, bpm)
    \/ \E handle \in HandleKinds : ApiEnvelopeGateOn(handle)
    \/ \E handle \in HandleKinds : ApiEnvelopeGateOff(handle)
    \/ \E handle \in HandleKinds : ApiEngineSetFilterType(handle)

SpecHandles == InitHandles /\ [][NextHandles]_vars

(***************************************************************************)
(* Helpers for the properties                                              *)
(***************************************************************************)
Gated(slot) == slot.env \in {"Attack", "Decay", "Sustain"}

NoIdleVoice == \A i \in Slots : voices_[i].env # "Idle"

AllGated == \A i \in Slots : Gated(voices_[i])

SomeReleasing == \E i \in Slots : voices_[i].env = "Release"

\* The step was a note_on / note_off call (what the actions
\* record in lastOp); tested first so that the other steps are skipped.
NoteOnStep == lastOp' \in {"retrigger", "idle", "steal_release", "steal_oldest"}
NoteOffStep == lastOp' \in {"note_off_hit", "note_off_miss"}

\* The slots whose record differs between the two ends of a step
ChangedSlots == {i \in Slots : voices_'[i] # voices_[i]}

(***************************************************************************)
(* C1 -- note/slot invariant                                               *)
(***************************************************************************)
\* C1 (as stated): for every pitch p with note_to_voice_map_[p] = i >= 0,
\* slot i has current_note = p and active = true, and no other slot has
\* current_note = p with active = true.
C1_NoteSlotBijection ==
    \A p \in Pitches :
        note_to_voice_map_[p] >= 0 =>
            LET i == note_to_voice_map_[p] IN
            /\ voices_[i].current_note = p
            /\ voices_[i].active
            /\ \A j \in Slots \ {i} :
                  ~(voices_[j].current_note = p /\ voices_[j].active)

\* C1 (amended): for every pitch p with note_to_voice_map_[p] = i >= 0,
\* slot i has current_note = p and active = true; another active slot may
\* carry the same current_note.
C1_MapPointsToPlayingSlot ==
    \A p \in Pitches :
        note_to_voice_map_[p] >= 0 =>
            LET i == note_to_voice_map_[p] IN
            /\ i \in Slots
            /\ voices_[i].current_note = p
            /\ voices_[i].active

\* A pitch is mapped to one slot while a second active slot still carries it.
C1_Witness ==
    \E p \in Pitches : \E i, j \in Slots :
        /\ i # j
        /\ note_to_voice_map_[p] = i
        /\ voices_[i].current_note = p /\ voices_[i].active
        /\ voices_[j].current_note = p /\ voices_[j].active

(***************************************************************************)
(* C2 -- note_on never fails                                               *)
(***************************************************************************)
\* C2: whenever note_on(p) returns, some slot i has current_note = p,
\* active = true, its envelope in Attack, and note_to_voice_map_[p] = i; the
\* pool keeps its size.
C2_NoteOnAlwaysClaims ==
    [][NoteOnStep => \A p \in Pitches :
          NoteOn(p) =>
              /\ \E i \in Slots :
                    /\ voices_'[i].current_note = p
                    /\ voices_'[i].active
                    /\ voices_'[i].env = "Attack"
                    /\ note_to_voice_map_'[p] = i
              /\ DOMAIN voices_' = Slots
              /\ Cardinality(DOMAIN voices_') = MAX_VOICES]_vars

\* A note_on that had to steal a gated voice has returned with its pitch
\* mapped to an attacking slot.
C2_Witness ==
    /\ lastOp = "steal_oldest"
    /\ \E p \in Pitches : \E i \in Slots :
          /\ note_to_voice_map_[p] = i
          /\ voices_[i].env = "Attack"
          /\ voices_[i].last_note_on_time = timestamp_counter_

(***************************************************************************)
(* C3 -- LRU stealing                                                      *)
(***************************************************************************)
\* C3: when every voice is gated, note_on(p) for an unmapped pitch p
\* reassigns exactly the slot with the minimum last_note_on_time: the stolen
\* slot's previous pitch q gets note_to_voice_map_[q] = -1,
\* note_to_voice_map_[p] points to that slot, and every other slot and map
\* entry is unchanged.
C3_StealsOldest ==
    [][NoteOnStep => \A p \in Pitches :
          (NoteOn(p) /\ AllGated /\ note_to_voice_map_[p] = -1) =>
              \E i \in Slots :
                  LET q == voices_[i].current_note IN
                  /\ \A j \in Slots \ {i} :
                        /\ voices_[i].last_note_on_time < voices_[j].last_note_on_time
                        /\ voices_'[j] = voices_[j]
                  /\ voices_'[i].current_note = p
                  /\ voices_'[i].active
                  /\ note_to_voice_map_'[q] = -1
                  /\ note_to_voice_map_'[p] = i
                  /\ \A r \in Pitches \ {p, q} :
                        note_to_voice_map_'[r] = note_to_voice_map_[r]]_vars

(***************************************************************************)
(* C4 -- a releasing voice is stolen before any gated one                  *)
(***************************************************************************)
\* C4: when no voice is idle and at least one envelope is releasing,
\* note_on(p) for an unmapped pitch reassigns a releasing slot and leaves
\* every gated slot as it was, whatever the timestamps are.
C4_StealsReleasingFirst ==
    [][NoteOnStep => \A p \in Pitches :
          (NoteOn(p) /\ NoIdleVoice /\ SomeReleasing
                     /\ note_to_voice_map_[p] = -1) =>
              /\ \E i \in Slots :
                    /\ voices_[i].env = "Release"
                    /\ voices_'[i].current_note = p
                    /\ voices_'[i].active
                    /\ note_to_voice_map_'[p] = i
                    /\ ChangedSlots = {i}
              /\ \A j \in Slots : Gated(voices_[j]) => voices_'[j] = voices_[j]]_vars

\* A releasing slot has just been stolen although a gated slot was older:
\* the pool was filled by one note_on per slot (times 1..MAX_VOICES), the
\* steal took timestamp MAX_VOICES + 1, and the slot of time 1 still plays.
C4_Witness ==
    /\ lastOp = "steal_release"
    /\ timestamp_counter_ = MAX_VOICES + 1
    /\ \E j \in Slots :
          /\ voices_[j].last_note_on_time = 1
          /\ Gated(voices_[j])
          /\ voices_[j].active

(***************************************************************************)
(* C5 -- retrigger in place                                                *)
(***************************************************************************)
\* C5: note_on(p) while note_to_voice_map_[p] points to an active slot
\* playing p restarts that slot's envelope attack and gives it a larger
\* last_note_on_time; no other slot changes, and the active flags, every
\* current_note and the note map are unchanged.
C5_RetriggerInPlace ==
    [][NoteOnStep => \A p \in Pitches :
          LET i == note_to_voice_map_[p] IN
          (NoteOn(p) /\ i >= 0 /\ voices_[i].active
                     /\ voices_[i].current_note = p) =>
              /\ voices_'[i].env = "Attack"
              /\ voices_'[i].last_note_on_time > voices_[i].last_note_on_time
              /\ voices_'[i].active = voices_[i].active
              /\ voices_'[i].current_note = voices_[i].current_note
              /\ \A j \in Slots \ {i} : voices_'[j] = voices_[j]
              /\ note_to_voice_map_' = note_to_voice_map_]_vars

\* A retrigger has happened on a slot that had left the attack stage, while
\* an idle slot was available.
C5_Witness ==
    /\ lastOp = "retrigger"
    /\ \E i \in Slots : voices_[i].env = "Idle"
    /\ \E i \in Slots :
          /\ voices_[i].env = "Attack"
          /\ voices_[i].last_note_on_time = timestamp_counter_
          /\ timestamp_counter_ >= 2

(***************************************************************************)
(* C6 -- note_off                                                          *)
(***************************************************************************)
\* C6: note_off(p) on a pitch mapped to an active slot playing p puts exactly
\* that voice's envelope into Release and sets note_to_voice_map_[p] = -1,
\* leaving active, current_note and every other slot unchanged; on any other
\* pitch it changes nothing.
C6_NoteOffEffect ==
    [][NoteOffStep => \A p \in Pitches :
          LET i == note_to_voice_map_[p] IN
          NoteOff(p) =>
              IF i >= 0 /\ voices_[i].active /\ voices_[i].current_note = p
              THEN /\ voices_' = [voices_ EXCEPT ![i].env = "Release"]
                   /\ note_to_voice_map_' = [note_to_voice_map_ EXCEPT ![p] = -1]
                   /\ timestamp_counter_' = timestamp_counter_
              ELSE UNCHANGED vmvars]_vars

\* A note_off has released a voice: its slot is still active with its pitch,
\* and the pitch is no longer mapped.
C6_Witness ==
    /\ lastOp = "note_off_hit"
    /\ \E i \in Slots :
          /\ voices_[i].env = "Release"
          /\ voices_[i].active
          /\ voices_[i].current_note >= 0
          /\ note_to_voice_map_[voices_[i].current_note] = -1

(***************************************************************************)
(* Helpers for the parser properties                                       *)
(***************************************************************************)
\* The emitted events without their sample offsets
StatusAndData(evs) ==
    [k \in 1..Len(evs) |-> <<evs[k].status, evs[k].data1, evs[k].data2>>]

IsData(b) == b \in 0..127
IsRealTimeByte(b) == b \in 248..255
IsTwoDataStatus(b) == b \in 128..191 \/ b \in 224..239
IsOneDataStatus(b) == b \in 192..223

\* Position of the status byte governing position k of a stream (the last
\* status byte other than real-time before k), 0 when there is none
GoverningPos(stream, k) ==
    LET S == {j \in 1..(k - 1) : stream[j] >= 128 /\ ~IsRealTimeByte(stream[j])}
    IN IF S = {} THEN 0 ELSE CHOOSE j \in S : \A i \in S : i <= j

\* Data-byte positions after the governing status byte, up to k
DataSince(stream, k) ==
    {j \in (GoverningPos(stream, k) + 1)..k : IsData(stream[j])}

\* The byte at position k completes a channel message
Completes(stream, k) ==
    /\ IsData(stream[k])
    /\ GoverningPos(stream, k) # 0
    /\ LET st == stream[GoverningPos(stream, k)] IN
       \/ IsTwoDataStatus(st) /\ Cardinality(DataSince(stream, k)) % 2 = 0
       \/ IsOneDataStatus(st)

\* The channel message completed at position k
CompletedAt(stream, k) ==
    LET st == stream[GoverningPos(stream, k)]
        before == DataSince(stream, k) \ {k}
        prev == CHOOSE j \in before : \A i \in before : i <= j
    IN IF IsOneDataStatus(st) THEN <<st, stream[k], 0>>
       ELSE <<st, stream[prev], stream[k]>>

\* The channel messages a byte stream contains, in order
RECURSIVE MessagesUpTo(_, _)
MessagesUpTo(stream, k) ==
    IF k = 0 THEN <<>>
    ELSE IF Completes(stream, k)
         THEN Append(MessagesUpTo(stream, k - 1), CompletedAt(stream, k))
         ELSE MessagesUpTo(stream, k - 1)

IsChannelEvent(e) == e[1] \in 128..239

\* The bytes a parse step has consumed
StepData == SubSeq(fed', Len(fed) + 1, Len(fed'))

(***************************************************************************)
(* C7 -- running status                                                    *)
(***************************************************************************)
\* C7: for a 2-data-byte status s, the stream s d1 d2 d1' d2' and the stream
\* s d1 d2 s d1' d2' both produce exactly the events (s, d1, d2) and
\* (s, d1', d2') in that order, and every further complete group of data
\* bytes re-uses the last status: at any point of either stream the emitted
\* events are the complete pairs of data bytes parsed so far, each under
\* status s.
C7_RunningStatus ==
    LET s == (fed \o input)[1]
        d == SelectSeq(fed, IsData)
    IN StatusAndData(emitted) =
           [k \in 1..(Len(d) \div 2) |-> <<s, d[2 * k - 1], d[2 * k]>>]

\* A whole stream with the status repeated has been parsed in more than one
\* call and has produced one event per group.
C7_Witness ==
    /\ input = <<>>
    /\ Len(fed) = 2 * NumGroups + 2
    /\ fed[4] = fed[1]
    /\ Len(emitted) = NumGroups
    /\ \E i, j \in 1..Len(emitted) : emitted[i].sampleOffset # emitted[j].sampleOffset

NotRealTimeByte(b) == ~IsRealTimeByte(b)

\* C9: a parse call on data containing bytes 0xF8..0xFF leaves the parser
\* (state, running status, pending bytes) and the emitted events exactly as
\* the same call on the data without those bytes would.
C9_RealTimeIgnored ==
    [][\A off \in SampleOffsets :
          LET data == StepData IN
          Parse(data, off) =>
              LET r == parse(Parser, SelectSeq(data, NotRealTimeByte), off) IN
              /\ m_state' = r.m_state
              /\ m_runningStatus' = r.m_runningStatus
              /\ m_pendingStatus' = r.m_pendingStatus
              /\ m_pendingData1' = r.m_pendingData1
              /\ emitted' = emitted \o r.out]_vars

\* A real-time byte arrived between a status byte and its data bytes, and
\* the message was emitted all the same.
C9_Witness ==
    /\ lastOp = "parse"
    /\ \E k \in 2..(Len(fed) - 1) :
          /\ IsRealTimeByte(fed[k])
          /\ fed[k - 1] \in 128..239
          /\ IsData(fed[k + 1])
          /\ Completes(fed, Len(fed))
          /\ GoverningPos(fed, Len(fed)) = k - 1
          /\ Len(emitted) = 1
          /\ emitted[1].status = fed[k - 1]

(***************************************************************************)
(* C10 -- MIDI dispatch                                                    *)
(***************************************************************************)
\* C10: a 0x9n event with data2 > 0 acts as note_on(data1); a 0x8n event or
\* a 0x9n event with data2 = 0 acts as note_off(data1), the two leaving the
\* manager in identical states; any other event leaves the slots, the note
\* map and the timestamp counter unchanged; isNoteOn and isNoteOff are never
\* both true.  Stated of the dispatch of every event from every state the
\* manager reaches when driven by MIDI events.
C10_DispatchByClass ==
    \A ev \in DispatchEvents :
        LET r == handleMidiEvent(VM, ev) IN
        /\ (ev.status \in 144..159 /\ ev.data2 > 0)
              => r = note_on(VM, ev.data1)
        /\ (ev.status \in 128..143 \/ (ev.status \in 144..159 /\ ev.data2 = 0))
              => /\ r = note_off(VM, ev.data1)
                 /\ r = handleMidiEvent(VM, [ev EXCEPT !.status = 128])
                 /\ r = handleMidiEvent(VM, [ev EXCEPT !.status = 144,
                                                       !.data2 = 0])
        /\ ev.status \notin 128..159 => r = VM
        /\ ~(isNoteOn(ev) /\ isNoteOff(ev))

\* A note-on with velocity 0 has been dispatched and released a voice.
C10_Witness ==
    /\ lastOp = "midi_off"
    /\ \E i \in Slots :
          /\ voices_[i].env = "Release"
          /\ voices_[i].active
          /\ note_to_voice_map_[voices_[i].current_note] = -1

(***************************************************************************)
(* C11 .. C13 -- the clock on one thread                                   *)
(***************************************************************************)
\* floor(N * bpm * 960 / (60 * sample_rate)), with 960 / 60 taken first
TicksOf(N, bpm, sample_rate) == (N * bpm * (PPQ \div 60)) \div sample_rate

\* The samples fed while the i-th tempo segment was current
SegmentLength(i) ==
    (IF i = Len(clk_anchors) THEN total_samples_ ELSE clk_anchors[i + 1].at)
        - clk_anchors[i].at

RECURSIVE SegmentTicks(_)
SegmentTicks(i) ==
    IF i = 0 THEN 0
    ELSE SegmentTicks(i - 1)
         + TicksOf(SegmentLength(i), clk_anchors[i].bpm,
                   clk_anchors[i].sample_rate)

\* Every tempo or sample-rate change was made on a tick boundary
AnchorsOnTickBoundaries ==
    \A i \in 1..(Len(clk_anchors) - 1) :
        (SegmentLength(i) * clk_anchors[i].bpm * (PPQ \div 60))
            % clk_anchors[i].sample_rate = 0

C12_TicksMonotone ==
    [][/\ total_ticks_' >= total_ticks_
       /\ (lastOp' = "advance" /\ total_samples_' = total_samples_)
             => total_ticks_' = total_ticks_]_vars

\* Ticks have accumulated, the tempo was lowered between tick boundaries,
\* and an advance of no samples followed.
C12_Witness ==
    /\ lastOp = "advance"
    /\ total_samples_ = total_samples_base_
    /\ total_ticks_ > 0
    /\ Len(clk_anchors) > 1
    /\ clk_anchors[Len(clk_anchors)].bpm < clk_anchors[1].bpm
    /\ ~AnchorsOnTickBoundaries

\* C13: total_ticks and current_time() are the same immediately after
\* set_bpm or set_sample_rate as immediately before.
C13_SetterKeepsPosition ==
    [][lastOp' \in {"set_bpm", "set_sample_rate"}
          => /\ total_ticks_' = total_ticks_
             /\ current_time(Clock)' = current_time(Clock)]_vars

\* A tempo change made past the first beat, between tick boundaries.
C13_Witness ==
    /\ lastOp = "set_bpm"
    /\ total_ticks_ > PPQ
    /\ bpm_ # clk_anchors[1].bpm
    /\ ~AnchorsOnTickBoundaries

(***************************************************************************)
(* C14 -- set_bpm racing advance                                           *)
(***************************************************************************)
\* C14: with set_bpm on a control thread and advance on the audio thread,
\* under every interleaving of the single field reads and writes, no write
\* of total_ticks_ lowers it.
C14_RaceKeepsTicksMonotone == total_ticks_ >= clk_aud.ticks_before

(***************************************************************************)
(* C15 -- the log ring with one producer and one consumer                  *)
(***************************************************************************)
\* C15: with one producer and one consumer, under every interleaving of the
\* atomic steps: the entries popped are the entries accepted, in order, each
\* once and whole; pop never copies a slot that push is writing; pop returns
\* nothing exactly when the ring was empty at its load of head; push returns
\* false exactly when Size - 1 entries were queued at its load of tail, and
\* then has left head as it was and written no entry.
C15_RingFifo ==
    LET prod == ring_prod["audio"] IN
    /\ Len(ring_hist.popped) <= Len(ring_hist.accepted)
    /\ \A i \in 1..Len(ring_hist.popped) :
          ring_hist.popped[i] = <<ring_hist.accepted[i], ring_hist.accepted[i]>>
    /\ (ring_cons.pc \in {"copy1", "copy2"} /\ prod.pc \in {"copy1", "copy2"})
          => prod.h # ring_cons.t
    /\ ring_cons.result = "nullopt" => ring_cons.queued = 0
    /\ ring_cons.pc \in {"copy1", "copy2", "store_tail"} => ring_cons.queued > 0
    /\ prod.result = "false"
          => /\ prod.queued = RingSize - 1
             /\ head = prod.head_at_call
             /\ ring_hist.copies = prod.copies_at_call
    /\ prod.pc \in {"copy1", "copy2", "store_head"} => prod.queued < RingSize - 1

\* The ring has wrapped, a push was refused on the full ring, and everything
\* accepted has been drained.
C15_Witness ==
    /\ ring_prod["audio"].result = "false"
    /\ ring_cons.result = "nullopt"
    /\ Len(ring_hist.accepted) = RingSize
    /\ Len(ring_hist.popped) = RingSize

(***************************************************************************)
(* C16 -- who pushes                                                       *)
(***************************************************************************)
\* C16: no two pushes read the same head and write the same slot: a push
\* made from a control-thread call never overlaps a render-time push.
C16_PushesDisjoint ==
    \A a, b \in Producers :
        (/\ a # b
         /\ ring_prod[a].pc \in {"copy1", "copy2", "store_head"}
         /\ ring_prod[b].pc \in {"copy1", "copy2", "store_head"})
            => ring_prod[a].h # ring_prod[b].h

(***************************************************************************)
(* C17 -- note_on / note_off racing the render loop                        *)
(***************************************************************************)
\* C17: with engine_note_on / engine_note_off on a control thread and the
\* render on the driver thread, whenever both are between calls: every
\* mapped pitch points to an active slot playing it, and no voice is gated
\* in a slot that the render has marked inactive.
C17_QuiescentSlotsConsistent ==
    (vm_ctl.pc = "idle" /\ vm_aud.next = 0)
        => /\ \A p \in Pitches :
                note_to_voice_map_[p] # -1
                    => /\ voices_[note_to_voice_map_[p]].current_note = p
                       /\ voices_[note_to_voice_map_[p]].active
           /\ \A i \in Slots : Gated(voices_[i]) => voices_[i].active

(***************************************************************************)
(* C18 -- the buffer pool                                                  *)
(***************************************************************************)
\* Where block b is: in the free list, in a live handle, or in the hand of a
\* thread that is inside borrow or inside a deleter
PlacesOf(b) ==
    Cardinality({i \in 1..Len(pool_) : pool_[i] = b})
    + Cardinality({th \in PoolThreads : b \in pool_threads[th].held})
    + Cardinality({th \in PoolThreads :
            /\ pool_threads[th].pc \in {"borrow_return", "release_push"}
            /\ pool_threads[th].buffer = b})

\* C18: under any interleaving of borrow calls and handle releases from
\* several threads, every block constructed is in exactly one place: no
\* block is held by two live handles, a released block is in the free list
\* once, and no block is lost.
C18_BlocksOwnedOnce ==
    /\ \A b \in 1..pool_made : PlacesOf(b) = 1
    /\ \A th \in PoolThreads :
          pool_threads[th].pc = "borrow_pop"
              => /\ pool_ # <<>>
                 /\ Back(pool_) = pool_threads[th].buffer

\* Both threads hold a handle, a released block is back in the free list,
\* and a block was fabricated on the empty pool.
C18_Witness ==
    /\ pool_made > PoolCapacity
    /\ \A th \in PoolThreads : pool_threads[th].held # {}
    /\ Len(pool_) = 1
    /\ \A th \in PoolThreads : pool_[1] \notin pool_threads[th].held

(***************************************************************************)
(* C19, C20 -- the connections of a modulation matrix                      *)
(***************************************************************************)
ActiveOfPair(conns, source, target) ==
    {i \in ConnectionIdx : /\ conns[i].active
                           /\ conns[i].source = source
                           /\ conns[i].target = target}

InactiveSlots(conns) == {i \in ConnectionIdx : ~conns[i].active}

\* The step was a call of set_connection
SetConnectionStep == lastOp' \in {"set_update", "set_fill", "set_full"}

\* C19: after any sequence of set_connection, clear_connection and
\* clear_all the matrix holds at most one active entry per (source, target)
\* pair; set_connection on an active pair replaces the intensity of its
\* entry and changes nothing else, and on any other pair fills the first
\* inactive slot when there is one.
C19_OneEntryPerPair ==
    /\ [](\A source \in Sources : \A target \in Targets :
            Cardinality(ActiveOfPair(connections_, source, target)) <= 1)
    /\ [][SetConnectionStep =>
            LET present == ActiveOfPair(connections_, mx_args'.source,
                                        mx_args'.target)
                free == InactiveSlots(connections_)
            IN  /\ present # {} =>
                     \E i \in present :
                        connections_' = [connections_ EXCEPT
                            ![i].intensity = mx_args'.intensity]
                /\ (present = {} /\ free # {}) =>
                     \E j \in free :
                        /\ \A k \in free : j <= k
                        /\ connections_' = [connections_ EXCEPT ![j] =
                              [source |-> mx_args'.source,
                               target |-> mx_args'.target,
                               intensity |-> mx_args'.intensity,
                               active |-> TRUE]]]_vars

\* A pair set a second time has a new intensity, while a slot below it,
\* freed by clear_connection, stays free.
C19_Witness ==
    /\ lastOp = "set_update"
    /\ \E i \in ConnectionIdx :
          /\ connections_[i].active
          /\ connections_[i].source = mx_args.source
          /\ connections_[i].target = mx_args.target
          /\ connections_[i].intensity = mx_args.intensity
          /\ i > 0
          /\ ~connections_[0].active
          /\ connections_[0].target # TargetCount

\* C20: when every slot is active, set_connection for a pair that is not
\* present changes no entry and no sum_for_target, and set_connection for a
\* pair that is present replaces its intensity.
C20_FullMatrix ==
    [][(SetConnectionStep /\ InactiveSlots(connections_) = {}) =>
          LET present == ActiveOfPair(connections_, mx_args'.source,
                                      mx_args'.target)
          IN  /\ present = {} =>
                   /\ connections_' = connections_
                   /\ \A target \in Targets : \A v \in SourceValues :
                         sum_for_target(connections_', target, v)
                            = sum_for_target(connections_, target, v)
              /\ present # {} =>
                   \E i \in present :
                      connections_' = [connections_ EXCEPT
                          ![i].intensity = mx_args'.intensity]]_vars

\* set_connection has just returned from a full matrix that does not hold
\* the pair it was called with.
C20_Witness ==
    /\ lastOp = "set_full"
    /\ InactiveSlots(connections_) = {}
    /\ ActiveOfPair(connections_, mx_args.source, mx_args.target) = {}

(***************************************************************************)
(* C21 -- what sum_for_target returns                                      *)
(***************************************************************************)
\* The sum of v[source] * intensity over a set of entries, one at a time
RECURSIVE ContributionsOf(_, _, _)
ContributionsOf(conns, S, v) ==
    IF S = {} THEN 0
    ELSE LET i == CHOOSE j \in S : TRUE IN
         v[conns[i].source] * conns[i].intensity
            + ContributionsOf(conns, S \ {i}, v)

ActiveOnTarget(conns, target) ==
    {i \in ConnectionIdx : conns[i].active /\ conns[i].target = target}

\* C21: after any history of set_connection / clear_connection / clear_all,
\* for every source-value vector v and target t, sum_for_target(t, v) is the
\* sum of v[source] * intensity over the active connections with target t;
\* a connection just cleared no longer weighs on the sum of its target, and
\* every sum is 0 after clear_all.
C21_SumOverActive ==
    \A target \in Targets : \A v \in SourceValues :
        /\ sum_for_target(connections_, target, v)
              = ContributionsOf(connections_,
                                ActiveOnTarget(connections_, target), v)
        /\ lastOp = "clear_all" => sum_for_target(connections_, target, v) = 0
        /\ (lastOp = "clear_connection" /\ mx_args.target = target) =>
              \A w \in SourceValues :
                 (\A source \in Sources \ {mx_args.source} :
                        w[source] = v[source])
                 => sum_for_target(connections_, target, w)
                       = sum_for_target(connections_, target, v)

\* A connection has just been cleared and its entry still carries its
\* source, target and a non-zero intensity, while another connection to the
\* same target and one to another target are active.
C21_Witness ==
    /\ lastOp = "clear_connection"
    /\ \E i, j, k \in ConnectionIdx :
          /\ ~connections_[i].active
          /\ connections_[i].source = mx_args.source
          /\ connections_[i].target = mx_args.target
          /\ connections_[i].intensity # 0
          /\ connections_[j].active
          /\ connections_[j].target = mx_args.target
          /\ connections_[k].active
          /\ connections_[k].target # mx_args.target

\* C23: after gate_off on a non-idle envelope, repeated pulls eventually
\* bring the envelope to Idle, whatever the parameters (sustain level 0
\* included) and whatever the stage in which the gate-off arrived.
C23_ReleaseTerminates == (env.state_ = "Release") ~> (env.state_ = "Idle")

\* The samples of the last pull, each with the stage the envelope was in
\* when process_sample returned it
LastSamples == {call.out[i] : i \in 1..Len(call.out)}

\* C24 as stated: every sample lies in [0, 1] and no sample produced while
\* is_active() is true equals 0.
C24_ZeroOnlyInIdle ==
    call.op = "pull" =>
        \A s \in LastSamples :
            /\ FrLeq(FrZero, s.sample) /\ FrLeq(s.sample, FrOne)
            /\ s.sample = FrZero => s.state = "Idle"

\* C24 (amended): every sample lies in [0, 1], and a sample produced while
\* is_active() is true equals 0 only when the sustain level is 0 and the
\* envelope has decayed to it or is holding it.
C24_ZeroOnlyAtZeroSustain ==
    call.op = "pull" =>
        \A s \in LastSamples :
            /\ FrLeq(FrZero, s.sample) /\ FrLeq(s.sample, FrOne)
            /\ (s.sample = FrZero /\ s.state # "Idle") =>
                    /\ env.sustain_level_ = FrZero
                    /\ s.state = "Sustain"

C24_Witness ==
    /\ call.op = "pull"
    /\ \E s \in LastSamples : s.sample = FrZero /\ s.state = "Sustain"
    /\ \E s \in LastSamples : s.sample = FrOne

\* The active connections of a voice from the envelope to the amplitude
EnvelopeToAmplitude(v) ==
    {i \in ConnectionIdx : /\ v.matrix_[i].active
                           /\ v.matrix_[i].source = Envelope
                           /\ v.matrix_[i].target = Amplitude}

\* C22: a freshly constructed Voice has exactly one active connection,
\* Envelope->Amplitude at intensity 1, and after every note_on an active
\* Envelope->Amplitude connection exists, whatever was done to the matrix.
C22_DefaultVcaAfterNoteOn ==
    /\ call.op = "ctor" =>
            /\ Cardinality({i \in ConnectionIdx : voice.matrix_[i].active}) = 1
            /\ \E i \in EnvelopeToAmplitude(voice) :
                    voice.matrix_[i].intensity = 1
    /\ call.op = "note_on" => EnvelopeToAmplitude(voice) # {}

\* C25: a pull of n samples advances the Voice by exactly n samples: from
\* every reachable state, pulling a samples and then b samples leaves the
\* Voice as one pull of a + b samples does, on the mono and the stereo path.
C25_PullsCompose ==
    \A a, b \in 0..MaxVoiceBlock :
        /\ FullVoice_do_pull(FullVoice_do_pull(voice, a).voice, b).voice
                = FullVoice_do_pull(voice, a + b).voice
        /\ FullVoice_do_pull_stereo(
                FullVoice_do_pull_stereo(voice, a).voice, b).voice
                = FullVoice_do_pull_stereo(voice, a + b).voice

\* C28: Voice::reset is idempotent in every reachable state: two successive
\* resets leave the state one reset leaves, and a pull after either
\* produces the same output, on the mono and the stereo path.
C28_ResetIdempotent ==
    LET once == FullVoice_reset(voice)
        twice == FullVoice_reset(once)
    IN  /\ twice = once
        /\ \A n \in 0..MaxVoiceBlock :
                /\ FullVoice_do_pull(twice, n) = FullVoice_do_pull(once, n)
                /\ FullVoice_do_pull_stereo(twice, n)
                        = FullVoice_do_pull_stereo(once, n)

\* A reset has just acted on a sounding voice whose oscillators had moved
\* and whose LFO intensity was still being smoothed
C28_Witness ==
    /\ call.op = "reset"
    /\ call.before.active
    /\ call.before.smoothing
    /\ call.pulls > 0
    /\ voice = FullVoice_reset(voice)

\* C26: a pull of n frames writes exactly n samples to the caller's buffer
\* and touches no buffer, the pooled scratch blocks included, past its end.
C26_PullStaysInBounds ==
    call.op \in {"engine_process", "driver_callback"} =>
        /\ \A a \in call.accesses : a.touched <= a.size
        /\ \E a \in call.accesses :
                a.buffer = "output" /\ a.touched = call.arg

\* C27: after any run the clock's sample position equals the total number
\* of frames rendered, through engine_process and the driver callback
\* alike; a rejected engine_process call advances nothing.
C27_ClockCountsRenderedFrames == total_samples_ = call.rendered

\* C30: engine_set_bpm and engine_set_meter given a non-positive value
\* clamp it or fail leaving the clock unchanged; after any sequence of
\* facade calls samples_per_tick is finite and positive and current_time is
\* defined with bar >= 1, 1 <= beat <= beats_per_bar and 0 <= tick < 960.
C30_ClockStaysValid ==
    /\ (call.op = "engine_set_bpm" /\ call.arg <= 0) =>
            \/ bpm_ > 0
            \/ call.status < 0 /\ Clock = call.before
    /\ (call.op = "engine_set_meter" /\ call.arg <= 0) =>
            \/ beats_per_bar_ > 0
            \/ call.status < 0 /\ Clock = call.before
    /\ samples_per_tick_[2] # 0 /\ samples_per_tick_[1] > 0
    /\ beats_per_bar_ # 0
    /\ LET t == current_time(Clock)
       IN  /\ t.bar >= 1
           /\ 1 <= t.beat /\ t.beat <= beats_per_bar_
           /\ 0 <= t.tick /\ t.tick < PPQ

\* C29: engine_note_on_name given a well-formed spelling (letter A..G,
\* optional # or b, signed octave) triggers MIDI pitch
\* (octave + 1) * 12 + semitone and returns 0; given any other spelling
\* (unknown letter, missing octave, empty string, text after the octave) it
\* returns a negative status and leaves the slots, the note map, the
\* timestamps and the clock unchanged.
C29_NoteNameContract ==
    call.op = "engine_note_on_name" =>
        /\ Clock = call.before.clock
        /\ IF call.wellformed
           THEN /\ call.status = 0
                /\ VM = note_on(call.before.vm, call.pitch)
           ELSE /\ call.status < 0
                /\ VM = call.before.vm

(***************************************************************************)
(* C33 -- C35: lazy reclamation of slots and held notes                    *)
(***************************************************************************)
\* C33: a slot released by note_off keeps active = true until a render
\* call observes its voice inactive; that render marks the slot inactive,
\* sets current_note = -1, clears the map entry of its pitch only if the
\* entry still points to this slot, and does not pull the voice; render
\* leaves active and current_note of every other slot unchanged.
C33_LazyReclamation ==
    [][/\ (NoteOffStep \/ NoteOnStep) =>
              \A i \in Slots : voices_[i].active => voices_'[i].active
       /\ (lastOp' = "render") =>
              /\ \A i \in Slots :
                    IF voices_[i].active /\ ~Voice_is_active(voices_[i].env)
                    THEN voices_'[i] = [voices_[i] EXCEPT !.active = FALSE,
                                                          !.current_note = -1]
                    ELSE /\ voices_'[i].active = voices_[i].active
                         /\ voices_'[i].current_note = voices_[i].current_note
              /\ \A p \in Pitches :
                    LET i == note_to_voice_map_[p] IN
                    note_to_voice_map_'[p] =
                        IF /\ i # -1
                           /\ voices_[i].active
                           /\ ~Voice_is_active(voices_[i].env)
                           /\ voices_[i].current_note = p
                        THEN -1 ELSE i]_vars

\* A render has reclaimed a slot while a younger slot plays a mapped pitch.
C33_Witness ==
    /\ lastOp = "render"
    /\ \E i \in Slots : \E j \in Slots \ {i} :
          /\ ~voices_[i].active
          /\ voices_[i].last_note_on_time > 0
          /\ voices_[j].active
          /\ voices_[j].last_note_on_time > voices_[i].last_note_on_time
          /\ voices_[j].current_note >= 0
          /\ note_to_voice_map_[voices_[j].current_note] = j

\* C34: in every state reachable by construction, note_on, note_off, reset
\* and render, every slot with active = false has current_note = -1.
C34_InactiveHasNoNote ==
    \A i \in Slots : ~voices_[i].active => voices_[i].current_note = -1

\* A slot that has played a note has been reclaimed by a render.
C34_Witness ==
    /\ lastOp = "render"
    /\ \E i \in Slots :
          /\ ~voices_[i].active
          /\ voices_[i].last_note_on_time > 0
          /\ voices_[i].env = "Idle"

\* C35: after any sequence of note_on, note_off and render calls, every
\* active slot whose envelope is gated and whose current_note is p has
\* note_to_voice_map_[p] equal to its own index, so that note_off(p)
\* releases it.
C35_HeldNotesReachable ==
    \A i \in Slots :
        (voices_[i].active /\ Gated(voices_[i])) =>
            note_to_voice_map_[Mask7(voices_[i].current_note)] = i

(***************************************************************************)
(* C36, C37: what the parser emits, and parsing in pieces                  *)
(***************************************************************************)
\* C36: every event emitted by MidiParser::parse has a channel-message
\* status (0x80..0xEF) and data bytes below 0x80; system-common bytes
\* 0xF0..0xF7 and the data bytes after them never produce an event and never
\* become the running status.
C36_OnlyChannelEvents ==
    /\ \A k \in 1..Len(emitted) :
          /\ emitted[k].status \in 128..239
          /\ emitted[k].data1 < 128
          /\ emitted[k].data2 < 128
    /\ m_runningStatus \notin 240..247

\* C37: whatever calls the stream was fed in, the events emitted (status,
\* data1, data2) and the parser's state are those of a single parse of the
\* whole stream by a fresh parser.
C37_SplitInvariant ==
    LET whole == parse(MidiParser_ctor, fed, 0) IN
    /\ StatusAndData(emitted) = StatusAndData(whole.out)
    /\ m_state = whole.m_state
    /\ m_runningStatus = whole.m_runningStatus
    /\ m_pendingStatus = whole.m_pendingStatus
    /\ m_pendingData1 = whole.m_pendingData1

\* Two messages of two data bytes, the second under running status, have
\* been completed by different calls.
C37_Witness ==
    /\ lastOp = "parse"
    /\ Len(emitted) = 2
    /\ IsTwoDataStatus(emitted[1].status)
    /\ emitted[2].status = emitted[1].status
    /\ emitted[1].sampleOffset # emitted[2].sampleOffset
    /\ Len(SelectSeq(fed, isStatusByte)) = 1

(***************************************************************************)
(* C38: note_on and the connections of the voice                           *)
(***************************************************************************)
\* C38: Voice::note_on leaves every existing modulation connection
\* unchanged: a user-set Envelope->Amplitude intensity is not overwritten,
\* and the default connection is added only when no Envelope->Amplitude
\* entry is active, whatever source values the last block left.
C38_NoteOnKeepsConnections ==
    \A frequency \in NoteFrequencies :
        LET after == FullVoice_note_on(voice, frequency).matrix_ IN
        IF EnvelopeToAmplitude(voice) # {}
        THEN after = voice.matrix_
        ELSE after = set_connection(voice.matrix_, Envelope, Amplitude, 1)

(***************************************************************************)
(* C39: restating the tempo                                                *)
(***************************************************************************)
\* C39: set_bpm with the tempo already in force, or set_sample_rate with
\* the current rate, at any sample position and however often, does not
\* change any later total_ticks: as long as every setter call has restated
\* the tempo and rate of construction, the tick count is the one of the
\* samples fed at that tempo and rate.
C39_RestatedTempoNoDrift ==
    (\A k \in 1..Len(clk_anchors) :
        /\ clk_anchors[k].bpm = bpm_
        /\ clk_anchors[k].sample_rate = sample_rate_)
    => total_ticks_ = TicksOf(total_samples_, bpm_, sample_rate_)

(***************************************************************************)
(* C40: the pan of a claimed slot                                          *)
(***************************************************************************)
\* C40: a slot claimed by VoiceManager::note_on starts with pan 0 whichever
\* way it was obtained: through the idle-voice path as through the steal
\* path, the voice does not keep the pan of the note it played before.
C40_ClaimedSlotCentred ==
    lastOp \in {"idle", "steal_release", "steal_oldest"} =>
        \A i \in Slots :
            voices_[i].last_note_on_time = timestamp_counter_
                => voice[i].pan_ = 0

(***************************************************************************)
(* C32: resource exhaustion is logged                                      *)
(***************************************************************************)
\* C32: BufferPool::borrow on an empty pool fabricates a fresh block and
\* ModulationMatrix::set_connection on a full table drops the connection,
\* and in each case an entry has been pushed to the log ring.
C32_ExhaustionLogged ==
    /\ pool_made > PoolCapacity => ring_hist.attempts >= pool_made - PoolCapacity
    /\ lastOp = "set_full" =>
            /\ ActiveOfPair(connections_, mx_args.source, mx_args.target) = {}
            /\ ring_hist.attempts > 0

(***************************************************************************)
(* C31: null and mistyped handles                                          *)
(***************************************************************************)
\* C31: every C-API function given a null handle, or a handle of another
\* type than it expects, returns a failure status (a function returning
\* void just returns), without using the handle as the expected type and
\* without changing any state.
C31_WrongHandleRejected ==
    (call.op # "create" /\ call.handle # call.expects) =>
        /\ call.outcome = "returned"
        /\ call.returns = "int" => call.status < 0
        /\ call.deref = "none"
        /\ ApiObjects = call.before

====
